---- MODULE Spec2Model ----
(***************************************************************************)
(* Rerun pipeline of the WorkArena L2 trajectory collection:               *)
(*   run_rerun_pipeline.py      the orchestrator (one engine invocation)   *)
(*   process_rerun_results.py   the reconciliation pass                    *)
(*   extract_failed_l2_task_ids.py  the producer of the failed-ID store    *)
(* The files on disk (failed-ID store, selected-batch file, runs root,     *)
(* destination root) are the persistent state; the locals of main() and    *)
(* the position in it are the state of one pipeline run.                   *)
(***************************************************************************)
EXTENDS Integers, Sequences, FiniteSets, TLC

\* ------------------------------------------------------------------ bounds
MaxLen == 3
MaxCount == 3
MaxEntries == 2
MaxRecs == 3
MaxRuns == 2
MaxFolders == 2
MaxDirs == 3
MaxCatalog == 3
MaxShards == 2
MaxSelCatalog == 2
MaxOffset == 2
MaxLimit == 2
MaxReruns == 1

\* ---------------------------------------------------------------- universe
Range(s) == {s[i] : i \in 1..Len(s)}

\* Full task IDs, in ascending string order (sorted() of the extractor).
IdOrder == <<"t1", "t2", "t3">>

TaskIds == Range(IdOrder)

\* A journal entry without a task_id (entry.get("task_id") is falsy).
NoTaskId == ""

\* Rewards are rationals <<numerator, denominator>>: 0, 0.5 and 1.
Rewards == {<<0, 1>>, <<1, 2>>, <<1, 1>>}

IsZero(r) == r[1] = 0

IsOne(r) == r[1] = r[2]

SeqsUpTo(S, n) == UNION {[1..k -> S] : k \in 0..n}

\* A dict[str, int]: a function on the keys present.
Dicts(K, V) == UNION {[D -> V] : D \in SUBSET K}

\* dict.get(key, default)
Get(d, key, default) == IF key \in DOMAIN d THEN d[key] ELSE default

\* ------------------------------------------- process_rerun_results.py
\* new_failed = [task_id for task_id in failed_ids if task_id not in success_ids]
PruneKeepsSuccesses(failed_ids, success_ids) == failed_ids

PruneFirstOnly(failed_ids, success_ids) ==
    LET hit == {i \in 1..Len(failed_ids) : failed_ids[i] \in success_ids}
        first == {i \in hit : \A j \in hit : failed_ids[j] = failed_ids[i] => i <= j}
        keep == [i \in 1..Len(failed_ids) |-> i \notin first]
        F[i \in 0..Len(failed_ids)] ==
            IF i = 0 THEN <<>>
            ELSE IF keep[i] THEN Append(F[i - 1], failed_ids[i]) ELSE F[i - 1]
    IN F[Len(failed_ids)]

PruneSorted(failed_ids, success_ids) ==
    SelectSeq(IdOrder, LAMBDA t : t \in Range(failed_ids) \ success_ids)

PruneAndDropFirst(failed_ids, success_ids) ==
    LET kept == SelectSeq(failed_ids, LAMBDA task_id : task_id \notin success_ids)
    IN IF kept # <<>> THEN Tail(kept) ELSE kept

Prune(failed_ids, success_ids) ==
    SelectSeq(failed_ids, LAMBDA task_id : task_id \notin success_ids)

WriteAlways(failed_ids, new_failed) == TRUE

\* if new_failed != failed_ids: the file is opened for writing
ShouldWrite(failed_ids, new_failed) == new_failed # failed_ids

\* update_failed_ids(failed_path, success_ids) on a file holding failed_ids:
\* the file's content afterwards, whether it was written, and the returned pair.
update_failed_ids(failed_ids, success_ids) ==
    LET new_failed == Prune(failed_ids, success_ids)
        write == ShouldWrite(failed_ids, new_failed)
    IN [file |-> IF write THEN new_failed ELSE failed_ids,
        written |-> write,
        ret |-> <<Len(failed_ids), Len(new_failed)>>]

\* ------------------------------------------------ run_rerun_pipeline.py
FilterStrict(task_ids, fail_counts, max_failures) ==
    IF max_failures <= 0 THEN <<>>
    ELSE SelectSeq(task_ids, LAMBDA task_id : Get(fail_counts, task_id, 0) < max_failures)

FilterNoGuard(task_ids, fail_counts, max_failures) ==
    SelectSeq(task_ids, LAMBDA task_id : Get(fail_counts, task_id, 0) <= max_failures)

filter_overfailed(task_ids, fail_counts, max_failures) ==
    IF max_failures <= 0 THEN <<>>
    ELSE SelectSeq(task_ids, LAMBDA task_id : Get(fail_counts, task_id, 0) <= max_failures)

SelectAll(task_ids, n) == task_ids

select_task_ids(task_ids, n) ==
    IF n <= 0 THEN <<>>
    ELSE SubSeq(task_ids, 1, IF n < Len(task_ids) THEN n ELSE Len(task_ids))

\* ----------------------------------------------------------- the journal
\* A trajectory record: whether its path contains "workarena-l2", and its reward.
TrajectoryRecords == [l2 : BOOLEAN, reward : {<<0, 1>>, <<1, 1>>}]

JournalEntries(n) ==
    [task_id : TaskIds \cup {NoTaskId},
     trajectory_records : SeqsUpTo(TrajectoryRecords, n)]

\* The arrays of k entries holding at most n trajectory records in all.
RECURSIVE EntryLists(_, _)
EntryLists(k, n) ==
    IF k = 0 THEN {<<>>}
    ELSE UNION {{<<e>> \o rest :
                    rest \in EntryLists(k - 1, n - Len(e.trajectory_records))} :
                e \in JournalEntries(n)}

\* The journal file: missing, not JSON, JSON that is no array, an array holding
\* something that is no object, or an array of at most MaxEntries entries with
\* at most MaxRecs trajectory records in all.
JournalFiles ==
    [shape : {"list"}, entries : UNION {EntryLists(k, MaxRecs) : k \in 0..MaxEntries}]
    \cup [shape : {"missing", "invalid_json", "not_list", "list_of_non_objects"},
          entries : {<<>>}]

\* for rec in entry.get("trajectory_records", []): if rec.get("reward") == 0
ZeroRewards(recs) == Cardinality({i \in 1..Len(recs) : IsZero(recs[i].reward)})

RECURSIVE CountEntries(_, _)
CountEntries(entries, counts) ==
    IF entries = <<>> THEN counts
    ELSE LET entry == Head(entries)
             task_id == entry.task_id
             n == ZeroRewards(entry.trajectory_records)
         IN IF task_id = NoTaskId \/ n = 0
            THEN CountEntries(Tail(entries), counts)
            ELSE CountEntries(Tail(entries),
                     [k \in DOMAIN counts \cup {task_id} |->
                         IF k = task_id THEN Get(counts, task_id, 0) + n
                         ELSE counts[k]])

EmptyDict == [k \in {} |-> 0]

LoadFailureCountsLenient(journal) ==
    [raised |-> FALSE,
     counts |-> IF journal.shape = "list" THEN CountEntries(journal.entries, EmptyDict)
                ELSE EmptyDict]

\* load_failure_counts(journal_path): the counts, or an uncaught exception.
load_failure_counts(journal) ==
    CASE journal.shape = "missing" -> [raised |-> FALSE, counts |-> EmptyDict]
      [] journal.shape = "invalid_json" -> [raised |-> TRUE, counts |-> EmptyDict]
      [] journal.shape = "not_list" -> [raised |-> FALSE, counts |-> EmptyDict]
      [] journal.shape = "list_of_non_objects" -> [raised |-> TRUE, counts |-> EmptyDict]
      [] OTHER -> [raised |-> FALSE, counts |-> CountEntries(journal.entries, EmptyDict)]

\* ------------------------------------ extract_failed_l2_task_ids.py
\* The first record whose path contains "workarena-l2" decides (break).
FirstL2(recs) ==
    LET hits == {i \in 1..Len(recs) : recs[i].l2}
    IN IF hits = {} THEN 0 ELSE CHOOSE i \in hits : \A j \in hits : i <= j

SortedIds(ids) == SelectSeq(IdOrder, LAMBDA t : t \in ids)

ExtractWithDuplicates(records) ==
    LET hits(t) == {i \in 1..Len(records) :
                       /\ records[i].task_id = t
                       /\ FirstL2(records[i].trajectory_records) # 0
                       /\ IsZero(records[i].trajectory_records[
                              FirstL2(records[i].trajectory_records)].reward)}
        F[k \in 0..Len(IdOrder)] ==
            IF k = 0 THEN <<>>
            ELSE F[k - 1] \o [n \in 1..Cardinality(hits(IdOrder[k])) |-> IdOrder[k]]
    IN F[Len(IdOrder)]

extract_failed_l2_task_ids(records) ==
    SortedIds({records[i].task_id : i \in
        {i \in 1..Len(records) :
            /\ records[i].task_id # NoTaskId
            /\ FirstL2(records[i].trajectory_records) # 0
            /\ IsZero(records[i].trajectory_records[
                   FirstL2(records[i].trajectory_records)].reward)}})

\* ------------------------------------------------- the failed-ID store
\* The journals the store is extracted from: the journal files above, and the
\* journals of up to MaxLen entries with at most one trajectory record each.
ExtractorJournals ==
    {f.entries : f \in {g \in JournalFiles : g.shape = "list"}}
    \cup SeqsUpTo([task_id : TaskIds \cup {NoTaskId},
                   trajectory_records : SeqsUpTo(TrajectoryRecords, 1)], MaxLen)

\* The stores the extractor writes from the journals of ExtractorJournals.
ExtractorStores ==
    {[shape |-> "list_of_str", ids |-> extract_failed_l2_task_ids(j)] :
        j \in ExtractorJournals}

\* The file at --failed-json: written by the extractor, or something else.
FailedJsonFiles ==
    {[shape |-> "list_of_str", ids |-> extract_failed_l2_task_ids(j.entries)] :
        j \in {f \in JournalFiles : f.shape = "list"}}
    \cup [shape : {"invalid_json", "not_list_of_str"}, ids : {<<>>}]

\* load_failed_ids(path): the list, or json.load's exception / SystemExit.
load_failed_ids(file) ==
    IF file.shape = "list_of_str"
    THEN [raised |-> FALSE, data |-> file.ids]
    ELSE [raised |-> TRUE, data |-> <<>>]

\* ------------------------------------------------------ run directories
\* A folder name, split at the first "_on_": name.split("_on_", 1).
FolderNames ==
    [head : {"run"}, has_delim : {TRUE}, tail : TaskIds]
    \cup [head : {"misc"}, has_delim : {FALSE}, tail : {""}]

\* A summary document on disk.
Absent == [kind |-> "absent", has_cum |-> FALSE, cum_reward |-> <<0, 1>>]

Unparseable == [kind |-> "unparseable", has_cum |-> FALSE, cum_reward |-> <<0, 1>>]

EmptyObject == [kind |-> "empty_object", has_cum |-> FALSE, cum_reward |-> <<0, 1>>]

Summary(r) == [kind |-> "object", has_cum |-> TRUE, cum_reward |-> r]

SummaryDocs ==
    {Absent, Unparseable, EmptyObject,
     [kind |-> "object", has_cum |-> FALSE, cum_reward |-> <<0, 1>>]}
    \cup {Summary(r) : r \in Rewards}

\* An entry of a run directory.
Folders ==
    [name : FolderNames, is_dir : BOOLEAN,
     summary_info : SummaryDocs, summary : SummaryDocs]

\* parse_task_id(run_dir)
parse_task_id(name) ==
    IF ~name.has_delim THEN [none |-> TRUE, task_id |-> ""]
    ELSE [none |-> FALSE, task_id |-> name.tail]

LoadSummarySecondFirst(folder) ==
    LET doc == IF folder.summary.kind # "absent" THEN folder.summary
               ELSE folder.summary_info
    IN [raised |-> doc.kind = "unparseable", doc |-> doc]

\* load_summary(run_dir): the first of the two files that exists.
load_summary(folder) ==
    LET doc == IF folder.summary_info.kind # "absent" THEN folder.summary_info
               ELSE folder.summary
    IN [raised |-> doc.kind = "unparseable", doc |-> doc]

\* The body of iter_successes' loop for one entry: "raise", "skip" or "success".
ScanEntry(entry) ==
    IF ~entry.is_dir THEN "skip"
    ELSE LET r == load_summary(entry)
         IN IF r.raised THEN "raise"
            ELSE IF r.doc.kind \in {"absent", "empty_object"} THEN "skip"
            ELSE IF ~(r.doc.has_cum /\ IsOne(r.doc.cum_reward)) THEN "skip"
            ELSE IF parse_task_id(entry.name).none THEN "skip"
            ELSE "success"

\* iter_successes(base_dir) over the entries in os.scandir's order.
iter_successes(entries) ==
    [raised |-> \E i \in 1..Len(entries) : ScanEntry(entries[i]) = "raise",
     successes |->
        LET F[i \in 0..Len(entries)] ==
                IF i = 0 THEN <<>>
                ELSE IF ScanEntry(entries[i]) = "success"
                     THEN Append(F[i - 1],
                                 [task_id |-> parse_task_id(entries[i].name).task_id,
                                  run_dir |-> entries[i].name])
                     ELSE F[i - 1]
        IN F[Len(entries)]]

\* The orders in which os.scandir may yield a directory's entries.
Orderings(S) == {s \in [1..Cardinality(S) -> S] : Range(s) = S}

\* ------------------------------------------------------ runs root
\* list_dirs(root): the names of the directories under the root.
list_dirs(root) ==
    IF ~root.exists THEN {} ELSE {root.dirs[i].name : i \in 1..Len(root.dirs)}

Oldest(root, names) ==
    LET idx == {i \in 1..Len(root.dirs) : root.dirs[i].name \in names}
        low == CHOOSE i \in idx : \A j \in idx : i <= j
    IN root.dirs[low].name

\* root.dirs is ordered by modification time, oldest first.
Newest(root, names) ==
    LET idx == {i \in 1..Len(root.dirs) : root.dirs[i].name \in names}
        top == CHOOSE i \in idx : \A j \in idx : j <= i
    IN root.dirs[top].name

PickNewestOfAll(root, before) ==
    IF ~root.exists \/ list_dirs(root) = {} THEN [raised |-> TRUE, run_dir |-> 0]
    ELSE [raised |-> FALSE, run_dir |-> Newest(root, list_dirs(root))]

\* pick_run_dir(root, before)
pick_run_dir(root, before) ==
    IF ~root.exists THEN [raised |-> TRUE, run_dir |-> 0]
    ELSE LET after == list_dirs(root)
             new_dirs == after \ before
         IN IF Cardinality(new_dirs) = 1
            THEN [raised |-> FALSE, run_dir |-> CHOOSE d \in new_dirs : TRUE]
            ELSE IF new_dirs # {}
            THEN [raised |-> FALSE, run_dir |-> Newest(root, new_dirs)]
            ELSE IF after = {}
            THEN [raised |-> TRUE, run_dir |-> 0]
            ELSE [raised |-> FALSE, run_dir |-> Newest(root, after)]

DirNamed(root, name) ==
    root.dirs[CHOOSE i \in 1..Len(root.dirs) : root.dirs[i].name = name]

\* ------------------------------------------------- the external engine
\* What the engine leaves in a task's folder: AgentLab writes summary_info.json.
EngineFolders(batch) ==
    {[name |-> [head |-> "run", has_delim |-> TRUE, tail |-> t], is_dir |-> TRUE,
      summary_info |-> d, summary |-> Absent] :
        t \in Range(batch), d \in {Absent, Unparseable, Summary(<<0, 1>>), Summary(<<1, 1>>)}}
    \cup {[name |-> [head |-> "misc", has_delim |-> FALSE, tail |-> ""], is_dir |-> TRUE,
           summary_info |-> Summary(<<1, 1>>), summary |-> Absent]}

RunDirContents(batch) ==
    {c \in SUBSET EngineFolders(batch) :
        /\ Cardinality(c) <= MaxFolders
        /\ \A f, g \in c : f.name = g.name => f = g}

\* The runs root after one invocation: untouched, an existing directory
\* modified again, or a new directory (created last, so the newest).
EngineEffects(root, batch) ==
    {root}
    \cup {[root EXCEPT !.exists = TRUE]}
    \cup {[root EXCEPT !.dirs =
              Append(SelectSeq(root.dirs, LAMBDA d : d.name # root.dirs[i].name),
                     root.dirs[i])] : i \in 1..Len(root.dirs)}
    \cup {[exists |-> TRUE,
           dirs |-> Append(root.dirs, [name |-> Len(root.dirs) + 1, folders |-> c])] :
              c \in RunDirContents(batch)}

\* ---------------------------- main_webarena_generic_subset_eval.py: values
\* Strings are sequences of characters; Python orders them by code point.
Code ==
    (" " :> 32) @@ ("." :> 46) @@ ("0" :> 48) @@ ("1" :> 49) @@ ("2" :> 50) @@ ("3" :> 51)
    @@ ("_" :> 95) @@ ("a" :> 97) @@ ("w" :> 119)

DigitChars == <<"0", "1", "2", "3">>

IsDigit(c) == c \in Range(DigitChars)

DigitValue(c) == (CHOOSE i \in 1..Len(DigitChars) : DigitChars[i] = c) - 1

\* a < b on strings
StrLess(a, b) ==
    \E k \in 1..Len(b) :
        /\ \A i \in 1..(k - 1) : i <= Len(a) /\ a[i] = b[i]
        /\ k > Len(a) \/ Code[a[k]] < Code[b[k]]

\* str(n) of a small non-negative int
Str(n) == IF n < 10 THEN <<DigitChars[n + 1]>>
          ELSE <<DigitChars[(n \div 10) + 1], DigitChars[(n % 10) + 1]>>

\* int(s) of a string of digits
RECURSIVE ParseInt(_)
ParseInt(s) == IF s = <<>> THEN 0
          ELSE 10 * ParseInt(SubSeq(s, 1, Len(s) - 1)) + DigitValue(s[Len(s)])

\* Optional values: {} is None, {x} is x.
Opt(S) == {{}} \cup {{x} : x \in S}

Val(o) == CHOOSE x \in o : TRUE

\* The task names of the catalog: webarena-style names ending in a number,
\* one that ends in no digit, and one that reads like another name's seeded ID.
TaskNames ==
    {<<"w", ".", "1">>, <<"w", ".", "2">>, <<"w", ".", "1", "0">>, <<"w", ".", "a">>,
     <<"w", ".", "1", "_", "1">>}

\* env_args: task_name and task_seed (None or an int).
EnvArgs == [task_name : TaskNames, task_seed : Opt({1})]

\* _full_task_id(env_args)
FullTaskIdNoSeed(ea) == ea.task_name

full_task_id(ea) ==
    IF ea.task_seed = {} THEN ea.task_name
    ELSE ea.task_name \o <<"_">> \o Str(Val(ea.task_seed))

\* _task_number(task_name): re.search(r"(\d+)$", task_name), None as {}
task_number(task_name) ==
    LET starts == {k \in 1..Len(task_name) :
                      \A i \in k..Len(task_name) : IsDigit(task_name[i])}
    IN IF starts = {} THEN {}
       ELSE LET k == CHOOSE s \in starts : \A t \in starts : s <= t
            IN {ParseInt(SubSeq(task_name, k, Len(task_name)))}

\* fnmatch.fnmatch(name, pat) for patterns of literals, "?" and "*"
RECURSIVE fnmatch(_, _)
fnmatch(name, pat) ==
    IF pat = <<>> THEN name = <<>>
    ELSE IF Head(pat) = "*"
         THEN \E k \in 0..Len(name) : fnmatch(SubSeq(name, k + 1, Len(name)), Tail(pat))
         ELSE /\ name # <<>>
              /\ Head(pat) = "?" \/ Head(pat) = Head(name)
              /\ fnmatch(Tail(name), Tail(pat))

\* The catalogs of at most n tasks (distinct descriptors, in any order).
RECURSIVE Catalogs(_)
Catalogs(n) ==
    IF n = 0 THEN {<<>>}
    ELSE LET prev == Catalogs(n - 1)
         IN prev \cup UNION {{Append(l, ea) : ea \in EnvArgs \ Range(l)} :
                                 l \in {x \in prev : Len(x) = n - 1}}

\* ------------------------ main_webarena_generic_subset_eval.py: the filters
\* env_args_list = [ea for ea in env_args_list if _full_task_id(ea) in task_id_set]
FilterIds(tasks, task_id_set) ==
    SelectSeq(tasks, LAMBDA ea : full_task_id(ea) \in task_id_set)

\* ... if fnmatch.fnmatch(getattr(ea, "task_name", ""), args.task_name_glob)
FilterGlob(tasks, glob) ==
    SelectSeq(tasks, LAMBDA ea : fnmatch(ea.task_name, glob))

FilterRangeByPosition(tasks, start, end) ==
    SubSeq(tasks, start, IF end < Len(tasks) THEN end ELSE Len(tasks))

FilterRangeBelowEnd(tasks, start, end) ==
    SelectSeq(tasks,
        LAMBDA ea : /\ task_number(ea.task_name) # {}
                    /\ start <= Val(task_number(ea.task_name))
                    /\ Val(task_number(ea.task_name)) < end)

\* ... if (task_num := _task_number(...)) is not None and start <= task_num <= end
FilterRange(tasks, start, end) ==
    SelectSeq(tasks,
        LAMBDA ea : /\ task_number(ea.task_name) # {}
                    /\ start <= Val(task_number(ea.task_name))
                    /\ Val(task_number(ea.task_name)) <= end)

\* ... if (task_num := ...) is not None and task_num in matched_indices
FilterStartUrl(tasks, matched_indices) ==
    SelectSeq(tasks,
        LAMBDA ea : /\ task_number(ea.task_name) # {}
                    /\ Val(task_number(ea.task_name)) \in matched_indices)

SortedUnchanged(tasks) == tasks

\* sorted(env_args_list, key=_full_task_id): stable, ascending
SortedByFullId(tasks) ==
    LET Insert(s, x) ==
            LET later == {i \in 1..Len(s) : StrLess(full_task_id(x), full_task_id(s[i]))}
                k == IF later = {} THEN Len(s) + 1
                     ELSE CHOOSE i \in later : \A j \in later : i <= j
            IN SubSeq(s, 1, k - 1) \o <<x>> \o SubSeq(s, k, Len(s))
        F[i \in 0..Len(tasks)] ==
            IF i = 0 THEN <<>> ELSE Insert(F[i - 1], tasks[i])
    IN F[Len(tasks)]

ShardUpToIndex(tasks, num_shards, shard_index) ==
    LET keep == {i \in 1..Len(tasks) : (i - 1) % num_shards <= shard_index}
        F[i \in 0..Len(tasks)] ==
            IF i = 0 THEN <<>>
            ELSE IF i \in keep THEN Append(F[i - 1], tasks[i]) ELSE F[i - 1]
    IN F[Len(tasks)]

\* [ea for idx, ea in enumerate(env_args_list) if idx % num_shards == shard_index]
Shard(tasks, num_shards, shard_index) ==
    LET keep == {i \in 1..Len(tasks) : (i - 1) % num_shards = shard_index}
        F[i \in 0..Len(tasks)] ==
            IF i = 0 THEN <<>>
            ELSE IF i \in keep THEN Append(F[i - 1], tasks[i]) ELSE F[i - 1]
    IN F[Len(tasks)]

\* if args.offset > 0: env_args_list = env_args_list[args.offset:]
Offset(tasks, offset) ==
    IF offset > 0 THEN SubSeq(tasks, offset + 1, Len(tasks))
    ELSE tasks

\* if args.limit > 0: env_args_list = env_args_list[:args.limit]
Limit(tasks, n) ==
    IF n > 0 THEN SubSeq(tasks, 1, IF n < Len(tasks) THEN n
                                           ELSE Len(tasks))
    ELSE tasks

\* Lines 428-451 of main on a filtered list: sort, shard filter when the shard
\* directives are given (None as {}), offset, limit.
Selection(tasks, num_shards, shard_index, offset, n) ==
    LET sorted == SortedByFullId(tasks)
        sharded == IF num_shards = {} /\ shard_index = {} THEN sorted
                   ELSE Shard(sorted, Val(num_shards), Val(shard_index))
    IN Limit(Offset(sharded, offset), n)

\* ------------------------------------------------------------- state
VARIABLES
    pc,            \* position in run_rerun_pipeline.main / process_rerun_results.main
    error,         \* the call that raised, when pc = "fatal"
    run,           \* pipeline runs started so far
    overwrite,     \* --overwrite of the current run
    journalShape,  \* the journal file's shape
    failedJson,    \* the file at --failed-json
    taskIdsOut,    \* the file at --task-ids-out
    runsRoot,      \* the directory at --runs-root
    destRoot,      \* the directory at --dest-root
    failed_ids, filtered_ids, selected_ids, limit, before_dirs, run_dir,
    overfailed,    \* the failed IDs with more than --max-failures first-match failures
    successes, copy_i, copied, skipped,
    engineCalls, passes, storeWrites, batchWrites,   \* per run
    exitCode,      \* the engine's exit code in this run, -1 before it returns
    storeAtStart, destAtStart, rootAtStart,                     \* the files when the run began
    storeAtPass,                                     \* the store when the pass began
    rewarded,      \* fullIds of the folders with cum_reward == 1 scanned by the pass
    succeeded,     \* fullIds rewarded in a pass that completed
    call, ret,     \* one function applied to drawn arguments
    serialised,    \* whether reconciliation passes on one store exclude each other
    upd,           \* update_failed_ids of each of the passes sharing one store
    selPc,         \* position in main_webarena_generic_subset_eval.main
    selError,      \* the error main_webarena_generic_subset_eval.main ended with
    args,          \* its parsed command line
    task_ids, task_id_range, start_url_filters, env_args_list,
    loads,         \* times the benchmark's task catalog was loaded
    launches,      \* times study.run was called
    reruns,        \* times process_rerun_results.py was run again on the run directory
    prevCompleted, \* the pass before this one returned from copy_successes
    prevAborted,   \* the pass before this one was killed or raised
    destAtPass     \* the destination root when this pass began

files == <<journalShape, failedJson, taskIdsOut, runsRoot, destRoot>>

locals == <<failed_ids, filtered_ids, overfailed, selected_ids, limit, before_dirs, run_dir,
            successes, copy_i, copied, skipped>>

observed == <<engineCalls, passes, storeWrites, batchWrites, exitCode, storeAtStart,
              destAtStart, rootAtStart, storeAtPass, rewarded, succeeded>>

concVars == <<serialised, upd>>

selVars == <<selPc, selError, args, task_ids, task_id_range, start_url_filters,
             env_args_list, loads, launches>>

\* main_webarena_generic_subset_eval.main not started
SelIdle ==
    /\ selPc = "idle" /\ selError = "none" /\ args = <<>>
    /\ task_ids = <<>> /\ task_id_range = {} /\ start_url_filters = {}
    /\ env_args_list = <<>>
    /\ loads = 0 /\ launches = 0

passVars == <<reruns, prevCompleted, prevAborted, destAtPass>>

\* process_rerun_results.py not run again by hand
PassIdle ==
    /\ reruns = 0 /\ prevCompleted = FALSE /\ prevAborted = FALSE
    /\ destAtPass = [exists |-> FALSE, folders |-> {}]

fnVars == <<call, ret, concVars, selVars, passVars>>

notSel == <<pc, error, run, overwrite, journalShape, failedJson, taskIdsOut, runsRoot,
            destRoot, locals, observed, call, ret, concVars, passVars>>

vars == <<pc, error, run, overwrite, files, locals, observed, fnVars>>

NoCall == [fn |-> "none"]

MaxFailuresArgs == -1..MaxCount

LimitArgs == -1..MaxLen

Min(a, b) == IF a < b THEN a ELSE b

\* The journal entries of task t whose first trajectory record with a path
\* containing the marker has reward 0.
FirstMatchFailures(entries, t) ==
    {i \in 1..Len(entries) :
        /\ entries[i].task_id = t
        /\ FirstL2(entries[i].trajectory_records) # 0
        /\ IsZero(entries[i].trajectory_records[
               FirstL2(entries[i].trajectory_records)].reward)}

\* The results of load_failure_counts over the journals of each shape, each with
\* the journal's failure counts by the first-match rule.
JournalOutcomes ==
    [sh \in {"missing", "invalid_json", "not_list", "list_of_non_objects", "list"} |->
        {[raised |-> load_failure_counts(j).raised,
          counts |-> load_failure_counts(j).counts,
          first |-> [t \in TaskIds |-> Cardinality(FirstMatchFailures(j.entries, t))]] :
            j \in {f \in JournalFiles : f.shape = sh}}]

\* The runs root before the first run: missing, empty, or holding the
\* directory of some earlier study.
RunsRoots ==
    [exists : BOOLEAN, dirs : {<<>>}]
    \cup {[exists |-> TRUE, dirs |-> <<[name |-> 1, folders |-> {}]>>]}

Init ==
    /\ pc = "idle"
    /\ error = "none"
    /\ run = 0
    /\ overwrite = FALSE
    /\ journalShape \in DOMAIN JournalOutcomes
    /\ failedJson \in FailedJsonFiles
    /\ taskIdsOut = [exists |-> FALSE, ids |-> <<>>]
    /\ runsRoot \in RunsRoots
    /\ destRoot = [exists |-> FALSE, folders |-> {}]
    /\ failed_ids = <<>> /\ filtered_ids = <<>> /\ overfailed = {} /\ selected_ids = <<>> /\ limit = 0
    /\ before_dirs = {} /\ run_dir = 0
    /\ successes = <<>> /\ copy_i = 0 /\ copied = 0 /\ skipped = 0
    /\ engineCalls = 0 /\ passes = 0 /\ storeWrites = 0 /\ batchWrites = 0
    /\ exitCode = -1
    /\ storeAtStart = failedJson /\ destAtStart = destRoot /\ rootAtStart = runsRoot
    /\ storeAtPass = failedJson
    /\ rewarded = {} /\ succeeded = {}
    /\ call = NoCall /\ ret = <<>>
    /\ serialised = TRUE /\ upd = <<>>
    /\ SelIdle
    /\ PassIdle

Fatal(what) == pc' = "fatal" /\ error' = what

NeverNothingToRun(ids) == FALSE

\* if not failed_ids: / if not selected_ids: ... return 0
NothingToRun(ids) == ids = <<>>

RunCommandUnchecked(exit_code) == FALSE

\* subprocess.run(cmd, cwd=cwd, check=True) raises CalledProcessError
RunCommandRaises(exit_code) == exit_code # 0

\* A new invocation of run_rerun_pipeline.py (runs are serialised).
StartRun ==
    /\ pc \in {"idle", "nothing_to_do", "done", "fatal"}
    /\ run < MaxRuns
    /\ run' = run + 1
    /\ pc' = "start" /\ error' = "none"
    /\ overwrite' \in BOOLEAN
    /\ failed_ids' = <<>> /\ filtered_ids' = <<>> /\ overfailed' = {} /\ selected_ids' = <<>> /\ limit' = 0
    /\ before_dirs' = {} /\ run_dir' = 0
    /\ successes' = <<>> /\ copy_i' = 0 /\ copied' = 0 /\ skipped' = 0
    /\ engineCalls' = 0 /\ passes' = 0 /\ storeWrites' = 0 /\ batchWrites' = 0
    /\ exitCode' = -1
    /\ storeAtStart' = failedJson /\ destAtStart' = destRoot /\ rootAtStart' = runsRoot
    /\ storeAtPass' = failedJson
    /\ rewarded' = {}
    /\ UNCHANGED <<files, succeeded, fnVars>>

\* failed_ids = load_failed_ids(args.failed_json); if not failed_ids: return 0
LoadFailedIds ==
    /\ pc = "start"
    /\ LET r == load_failed_ids(failedJson)
       IN IF r.raised THEN Fatal("load_failed_ids") /\ UNCHANGED failed_ids
          ELSE /\ failed_ids' = r.data
               /\ pc' = IF NothingToRun(r.data) THEN "nothing_to_do" ELSE "loaded"
               /\ UNCHANGED error
    /\ UNCHANGED <<run, overwrite, files, filtered_ids, overfailed, selected_ids, limit, before_dirs,
                   run_dir, successes, copy_i, copied, skipped, observed, fnVars>>

\* fail_counts = load_failure_counts(...); filtered_ids = filter_overfailed(...)
ComputeEligible ==
    /\ pc = "loaded"
    /\ \E r \in JournalOutcomes[journalShape], max_failures \in MaxFailuresArgs :
          IF r.raised THEN Fatal("load_failure_counts") /\ UNCHANGED <<filtered_ids, overfailed>>
          ELSE /\ filtered_ids' = filter_overfailed(failed_ids, r.counts, max_failures)
               /\ overfailed' = {t \in Range(failed_ids) : r.first[t] > max_failures}
               /\ pc' = "eligible"
               /\ UNCHANGED error
    /\ UNCHANGED <<run, overwrite, files, failed_ids, selected_ids, limit, before_dirs,
                   run_dir, successes, copy_i, copied, skipped, observed, fnVars>>

\* selected_ids = select_task_ids(filtered_ids, min(args.limit, len(filtered_ids)))
SelectBatch ==
    /\ pc = "eligible"
    /\ \E n \in LimitArgs :
          /\ limit' = n
          /\ selected_ids' = select_task_ids(filtered_ids, Min(n, Len(filtered_ids)))
          /\ pc' = IF NothingToRun(selected_ids') THEN "nothing_to_do" ELSE "selected"
    /\ UNCHANGED <<error, run, overwrite, files, failed_ids, filtered_ids, overfailed, before_dirs,
                   run_dir, successes, copy_i, copied, skipped, observed, fnVars>>

\* write_task_ids(selected_ids, args.task_ids_out)
WriteTaskIds ==
    /\ pc = "selected"
    /\ taskIdsOut' = [exists |-> TRUE, ids |-> selected_ids]
    /\ batchWrites' = batchWrites + 1
    /\ pc' = "written"
    /\ UNCHANGED <<error, run, overwrite, journalShape, failedJson, runsRoot, destRoot,
                   locals, engineCalls, passes, storeWrites, exitCode, storeAtStart,
                   destAtStart, rootAtStart, storeAtPass, rewarded, succeeded, fnVars>>

SnapshotAfterEngine ==
    /\ pc = "written"
    /\ engineCalls' = engineCalls + 1
    /\ exitCode' = 0
    /\ runsRoot' \in EngineEffects(runsRoot, taskIdsOut.ids)
    /\ before_dirs' = list_dirs(runsRoot')
    /\ pc' = "invoked"
    /\ UNCHANGED <<error, run, overwrite, journalShape, failedJson, taskIdsOut, destRoot,
                   failed_ids, filtered_ids, overfailed, selected_ids, limit, run_dir,
                   successes, copy_i, copied, skipped, passes, storeWrites, batchWrites,
                   storeAtStart, destAtStart, rootAtStart, storeAtPass, rewarded,
                   succeeded, fnVars>>

\* before_dirs = list_dirs(runs_root)
Snapshot ==
    /\ pc = "written"
    /\ before_dirs' = list_dirs(runsRoot)
    /\ pc' = "snapshotted"
    /\ UNCHANGED <<error, run, overwrite, files, failed_ids, filtered_ids, overfailed, selected_ids, limit,
                   run_dir, successes, copy_i, copied, skipped, observed, fnVars>>

InvokeEngineWithRetry ==
    /\ pc = "snapshotted"
    /\ engineCalls < 3
    /\ engineCalls' = engineCalls + 1
    /\ runsRoot' \in EngineEffects(runsRoot, taskIdsOut.ids)
    /\ \E exit_code \in {0, 1} :
          /\ exitCode' = exit_code
          /\ IF RunCommandRaises(exit_code) THEN UNCHANGED <<pc, error>>
             ELSE pc' = "invoked" /\ UNCHANGED error
    /\ UNCHANGED <<run, overwrite, journalShape, failedJson, taskIdsOut, destRoot,
                   locals, passes, storeWrites, batchWrites, storeAtStart, destAtStart, rootAtStart,
                   storeAtPass, rewarded, succeeded, fnVars>>

\* run_command([... main_script, "--task-ids-json", ...]): the engine reads the
\* batch file and leaves its output under the runs root.
InvokeEngine ==
    /\ pc = "snapshotted"
    /\ engineCalls' = engineCalls + 1
    /\ runsRoot' \in EngineEffects(runsRoot, taskIdsOut.ids)
    /\ \E exit_code \in {0, 1} :
          /\ exitCode' = exit_code
          /\ IF RunCommandRaises(exit_code) THEN Fatal("engine")
             ELSE pc' = "invoked" /\ UNCHANGED error
    /\ UNCHANGED <<run, overwrite, journalShape, failedJson, taskIdsOut, destRoot,
                   locals, passes, storeWrites, batchWrites, storeAtStart, destAtStart, rootAtStart,
                   storeAtPass, rewarded, succeeded, fnVars>>

\* run_dir = pick_run_dir(runs_root, before_dirs)
DetectRunDirectory ==
    /\ pc = "invoked"
    /\ LET r == pick_run_dir(runsRoot, before_dirs)
       IN IF r.raised THEN Fatal("pick_run_dir") /\ UNCHANGED run_dir
          ELSE run_dir' = r.run_dir /\ pc' = "detected" /\ UNCHANGED error
    /\ UNCHANGED <<run, overwrite, files, failed_ids, filtered_ids, overfailed, selected_ids, limit,
                   before_dirs, successes, copy_i, copied, skipped, observed, fnVars>>

\* The fullIds of the folders of a run directory whose summary document (the
\* first of the two names that exists) records cum_reward == 1.
RewardedIds(folders) ==
    {f.name.tail : f \in {g \in folders :
        /\ g.is_dir /\ g.name.has_delim
        /\ LET d == IF g.summary_info.kind # "absent" THEN g.summary_info ELSE g.summary
           IN d.kind = "object" /\ d.has_cum /\ d.cum_reward = <<1, 1>>}}

\* ---------------------------------- process_rerun_results.main, step by step
\* run_command(process_cmd): successes = iter_successes(runs_dir)
ScanRunDir ==
    /\ pc = "detected"
    /\ passes' = passes + 1
    /\ storeAtPass' = failedJson
    /\ \E entries \in Orderings(DirNamed(runsRoot, run_dir).folders) :
          LET r == iter_successes(entries)
          IN IF r.raised
             THEN Fatal("iter_successes") /\ UNCHANGED <<successes, rewarded>>
             ELSE /\ successes' = r.successes
                  /\ rewarded' = RewardedIds(DirNamed(runsRoot, run_dir).folders)
                  /\ pc' = "scanned"
                  /\ UNCHANGED error
    /\ UNCHANGED <<run, overwrite, files, failed_ids, filtered_ids, overfailed, selected_ids, limit,
                   before_dirs, run_dir, copy_i, copied, skipped, engineCalls,
                   storeWrites, batchWrites, exitCode, storeAtStart, destAtStart, rootAtStart,
                   succeeded, fnVars>>

\* if success_ids: update_failed_ids(failed_path, success_ids)
UpdateStore ==
    /\ pc = "scanned"
    /\ LET success_ids == {successes[i].task_id : i \in 1..Len(successes)}
           u == update_failed_ids(failedJson.ids, success_ids)
       IN IF success_ids # {}
          THEN /\ failedJson' = [failedJson EXCEPT !.ids = u.file]
               /\ storeWrites' = storeWrites + (IF u.written THEN 1 ELSE 0)
          ELSE UNCHANGED <<failedJson, storeWrites>>
    /\ pc' = "pruned"
    /\ UNCHANGED <<error, run, overwrite, journalShape, taskIdsOut, runsRoot, destRoot,
                   locals, engineCalls, passes, batchWrites, exitCode, storeAtStart,
                   destAtStart, rootAtStart, storeAtPass, rewarded, succeeded, fnVars>>

\* copy_successes: dest_root.mkdir(parents=True, exist_ok=True)
CopyBegin ==
    /\ pc = "pruned"
    /\ destRoot' = [destRoot EXCEPT !.exists = TRUE]
    /\ copy_i' = 1
    /\ pc' = "copying"
    /\ UNCHANGED <<error, run, overwrite, journalShape, failedJson, taskIdsOut, runsRoot,
                   failed_ids, filtered_ids, overfailed, selected_ids, limit, before_dirs, run_dir,
                   successes, copied, skipped, observed, fnVars>>

NeverInDest(name) == FALSE

\* dest_dir.exists()
InDest(name) == \E f \in destRoot.folders : f.name = name

PutDest(name, complete) ==
    [destRoot EXCEPT !.folders =
        {f \in @ : f.name # name} \cup {[name |-> name, complete |-> complete]}]

\* copy_successes: one iteration of the loop. shutil.copytree either completes,
\* or raises before creating anything, or raises leaving a partial copy.
CopyStep ==
    /\ pc = "copying"
    /\ copy_i <= Len(successes)
    /\ LET name == successes[copy_i].run_dir
       IN IF InDest(name) /\ ~overwrite
          THEN /\ skipped' = skipped + 1
               /\ copy_i' = copy_i + 1
               /\ UNCHANGED <<pc, error, destRoot, copied>>
          ELSE \E outcome \in {"copied", "raised_early", "raised_midway"} :
                  CASE outcome = "copied" ->
                          /\ destRoot' = PutDest(name, TRUE)
                          /\ copied' = copied + 1
                          /\ copy_i' = copy_i + 1
                          /\ UNCHANGED <<pc, error, skipped>>
                    [] outcome = "raised_early" ->
                          /\ Fatal("copy_successes")
                          /\ UNCHANGED <<destRoot, copied, copy_i, skipped>>
                    [] OTHER ->
                          /\ Fatal("copy_successes")
                          /\ destRoot' = PutDest(name, FALSE)
                          /\ UNCHANGED <<copied, copy_i, skipped>>
    /\ UNCHANGED <<run, overwrite, journalShape, failedJson, taskIdsOut, runsRoot,
                   failed_ids, filtered_ids, overfailed, selected_ids, limit, before_dirs, run_dir,
                   successes, observed, fnVars>>

\* copy_successes returns; main returns 0: the pass has completed.
CopyEnd ==
    /\ pc = "copying"
    /\ copy_i > Len(successes)
    /\ succeeded' = succeeded \cup rewarded
    /\ pc' = "reconciled"
    /\ UNCHANGED <<error, run, overwrite, files, locals, engineCalls, passes,
                   storeWrites, batchWrites, exitCode, storeAtStart, destAtStart, rootAtStart,
                   storeAtPass, rewarded, fnVars>>

\* run_command_capture([... update_script, "--dry-run"]); return 0
DryRunUpdate ==
    /\ pc = "reconciled"
    /\ \E exit_code \in {0, 1} :
          IF RunCommandRaises(exit_code) THEN Fatal("update_dry_run")
          ELSE pc' = "done" /\ UNCHANGED error
    /\ UNCHANGED <<run, overwrite, files, locals, observed, fnVars>>

Next ==
    \/ StartRun
    \/ LoadFailedIds
    \/ ComputeEligible
    \/ SelectBatch
    \/ WriteTaskIds
    \/ Snapshot
    \/ InvokeEngine
    \/ DetectRunDirectory
    \/ ScanRunDir
    \/ UpdateStore
    \/ CopyBegin
    \/ CopyStep
    \/ CopyEnd
    \/ DryRunUpdate

Spec == Init /\ [][Next]_vars

\* The pipeline on a store the extractor wrote, of up to MaxLen IDs.
E2EInit ==
    /\ pc = "idle"
    /\ error = "none"
    /\ run = 0
    /\ overwrite = FALSE
    /\ journalShape \in DOMAIN JournalOutcomes
    /\ failedJson \in ExtractorStores
    /\ taskIdsOut = [exists |-> FALSE, ids |-> <<>>]
    /\ runsRoot \in RunsRoots
    /\ destRoot = [exists |-> FALSE, folders |-> {}]
    /\ failed_ids = <<>> /\ filtered_ids = <<>> /\ overfailed = {} /\ selected_ids = <<>> /\ limit = 0
    /\ before_dirs = {} /\ run_dir = 0
    /\ successes = <<>> /\ copy_i = 0 /\ copied = 0 /\ skipped = 0
    /\ engineCalls = 0 /\ passes = 0 /\ storeWrites = 0 /\ batchWrites = 0
    /\ exitCode = -1
    /\ storeAtStart = failedJson /\ destAtStart = destRoot /\ rootAtStart = runsRoot
    /\ storeAtPass = failedJson
    /\ rewarded = {} /\ succeeded = {}
    /\ call = NoCall /\ ret = <<>>
    /\ serialised = TRUE /\ upd = <<>>
    /\ SelIdle
    /\ PassIdle

E2ESpec == E2EInit /\ [][Next]_vars

\* ------------------------- process_rerun_results.py run again on one directory
\* One run directory, as an engine run on the whole store leaves it, and
\* process_rerun_results.py run on it by hand: once, and again after the pass
\* returned, raised or was killed.  Folders already under the destination root
\* are complete copies.
PassInit ==
    /\ pc = "detected"
    /\ error = "none"
    /\ run = 1
    /\ overwrite \in BOOLEAN
    /\ journalShape = "missing"
    /\ failedJson \in ExtractorStores
    /\ taskIdsOut = [exists |-> TRUE, ids |-> failedJson.ids]
    /\ \E c \in RunDirContents(IdOrder) :
           runsRoot = [exists |-> TRUE, dirs |-> <<[name |-> 1, folders |-> c]>>]
    /\ destRoot \in {[exists |-> FALSE, folders |-> {}]}
                    \cup {[exists |-> TRUE,
                           folders |-> {[name |-> [head |-> "run", has_delim |-> TRUE,
                                                   tail |-> IdOrder[1]],
                                         complete |-> TRUE]}]}
    /\ failed_ids = <<>> /\ filtered_ids = <<>> /\ overfailed = {}
    /\ selected_ids = <<>> /\ limit = 0
    /\ before_dirs = {} /\ run_dir = 1
    /\ successes = <<>> /\ copy_i = 0 /\ copied = 0 /\ skipped = 0
    /\ engineCalls = 1 /\ passes = 0 /\ storeWrites = 0 /\ batchWrites = 1
    /\ exitCode = 0
    /\ storeAtStart = failedJson /\ destAtStart = destRoot /\ rootAtStart = runsRoot
    /\ storeAtPass = failedJson
    /\ rewarded = {} /\ succeeded = {}
    /\ call = NoCall /\ ret = <<>>
    /\ serialised = TRUE /\ upd = <<>>
    /\ SelIdle
    /\ reruns = 0 /\ prevCompleted = FALSE /\ prevAborted = FALSE
    /\ destAtPass = destRoot

\* The process is killed: between two statements of main, or inside
\* shutil.copytree, which then leaves nothing or a partial copy.
Interrupt ==
    /\ pc \in {"scanned", "pruned", "copying"}
    /\ pc' = "interrupted"
    /\ \/ UNCHANGED destRoot
       \/ /\ pc = "copying" /\ copy_i <= Len(successes)
          /\ ~(InDest(successes[copy_i].run_dir) /\ ~overwrite)
          /\ destRoot' = PutDest(successes[copy_i].run_dir, FALSE)
    /\ UNCHANGED <<error, run, overwrite, journalShape, failedJson, taskIdsOut, runsRoot,
                   locals, observed, fnVars>>

\* process_rerun_results.py is run again with the same --runs-dir,
\* --failed-json and --dest-root.
RerunPass ==
    /\ pc \in {"reconciled", "interrupted", "fatal"}
    /\ reruns < MaxReruns
    /\ reruns' = reruns + 1
    /\ prevCompleted' = (pc = "reconciled")
    /\ prevAborted' = (pc # "reconciled")
    /\ destAtPass' = destRoot
    /\ pc' = "detected" /\ error' = "none"
    /\ overwrite' \in BOOLEAN
    /\ successes' = <<>> /\ copy_i' = 0 /\ copied' = 0 /\ skipped' = 0
    /\ storeWrites' = 0
    /\ storeAtPass' = failedJson
    /\ rewarded' = {}
    /\ UNCHANGED <<run, files, failed_ids, filtered_ids, overfailed, selected_ids, limit,
                   before_dirs, run_dir, engineCalls, passes, batchWrites, exitCode,
                   storeAtStart, destAtStart, rootAtStart, succeeded,
                   call, ret, concVars, selVars>>

PassNext ==
    \/ ScanRunDir
    \/ UpdateStore
    \/ CopyBegin
    \/ CopyStep
    \/ CopyEnd
    \/ Interrupt
    \/ RerunPass

PassSpec == PassInit /\ [][PassNext]_vars

\* ------------------------------------------- functions on drawn arguments
Call(fn, ids, success_ids, fail_counts, max_failures) ==
    [fn |-> fn, ids |-> ids, success_ids |-> success_ids,
     fail_counts |-> fail_counts, max_failures |-> max_failures]

UpdateCalls ==
    {Call("update_failed_ids", ids, success_ids, EmptyDict, 0) :
        ids \in SeqsUpTo(TaskIds, MaxLen), success_ids \in SUBSET TaskIds}

FilterCalls ==
    {Call("filter_overfailed", ids, {}, fail_counts, max_failures) :
        ids \in SeqsUpTo(TaskIds, MaxLen),
        fail_counts \in Dicts(TaskIds, 0..MaxCount),
        max_failures \in MaxFailuresArgs}

JournalCalls == {[fn |-> "load_failure_counts", journal |-> j] : j \in JournalFiles}

\* The entries a directory can hold: a plain file, or a folder with its two
\* summary files.
DirFolders ==
    {f \in Folders :
        /\ f.is_dir \/ (f.summary_info = Absent /\ f.summary = Absent)
        /\ f.summary \in {Absent, Unparseable, Summary(<<0, 1>>), Summary(<<1, 1>>)}}

\* os.scandir's results over directories of at most n entries (names differ).
RECURSIVE Listings(_)
Listings(n) ==
    IF n = 0 THEN {<<>>}
    ELSE LET prev == Listings(n - 1)
         IN prev \cup UNION {{Append(l, f) :
                                f \in {g \in DirFolders :
                                          \A i \in 1..Len(l) : l[i].name # g.name}} :
                            l \in {x \in prev : Len(x) = n - 1}}

ScanCalls == {[fn |-> "iter_successes", entries |-> l] : l \in Listings(MaxFolders)}

\* Runs roots of at most n directories, oldest first (their contents do not
\* matter to the detection).
RECURSIVE DirLists(_)
DirLists(n) ==
    IF n = 0 THEN {<<>>}
    ELSE LET prev == DirLists(n - 1)
         IN prev \cup UNION {{Append(l, [name |-> d, folders |-> {}]) :
                                d \in {e \in 1..MaxDirs :
                                          \A i \in 1..Len(l) : l[i].name # e}} :
                            l \in {x \in prev : Len(x) = n - 1}}

PickCalls ==
    {[fn |-> "pick_run_dir", root |-> [exists |-> e, dirs |-> l], before |-> b] :
        e \in BOOLEAN, l \in DirLists(MaxDirs), b \in SUBSET (1..MaxDirs)}

\* The shard filter for every shard index of one sorted list.
ShardCalls ==
    {[fn |-> "shards", env_args_list |-> SortedByFullId(l), num_shards |-> n] :
        l \in Catalogs(MaxCatalog), n \in 1..MaxShards}

\* Valid shard directives: both absent, or a count and an index below it.
ShardPairs ==
    {[num_shards |-> {}, shard_index |-> {}]}
    \cup {s \in [num_shards : {{n} : n \in 1..MaxShards},
                  shard_index : {{i} : i \in 0..(MaxShards - 1)}] :
              Val(s.shard_index) < Val(s.num_shards)}

SelectCalls ==
    {[fn |-> "select", env_args_list |-> l, shards |-> s, offset |-> o, limit |-> n] :
        l \in Catalogs(MaxCatalog), s \in ShardPairs, o \in 0..MaxOffset, n \in 0..MaxLimit}

Globs == {<<"w", ".", "1", "*">>, <<"w", ".", "?">>, <<"*", "1">>}

Ranges == {<<1, 1>>, <<1, 2>>, <<2, 10>>}

FilterPairCalls ==
    {[fn |-> "filters", env_args_list |-> l, task_name_glob |-> g, task_id_range |-> r] :
        l \in Catalogs(MaxCatalog), g \in Globs, r \in Ranges}

FnInit ==
    /\ pc = "idle"
    /\ error = "none"
    /\ run = 0
    /\ overwrite = FALSE
    /\ journalShape = "missing"
    /\ failedJson = [shape |-> "list_of_str", ids |-> <<>>]
    /\ taskIdsOut = [exists |-> FALSE, ids |-> <<>>]
    /\ runsRoot = [exists |-> FALSE, dirs |-> <<>>]
    /\ destRoot = [exists |-> FALSE, folders |-> {}]
    /\ failed_ids = <<>> /\ filtered_ids = <<>> /\ overfailed = {} /\ selected_ids = <<>> /\ limit = 0
    /\ before_dirs = {} /\ run_dir = 0
    /\ successes = <<>> /\ copy_i = 0 /\ copied = 0 /\ skipped = 0
    /\ engineCalls = 0 /\ passes = 0 /\ storeWrites = 0 /\ batchWrites = 0
    /\ exitCode = -1
    /\ storeAtStart = failedJson /\ destAtStart = destRoot /\ rootAtStart = runsRoot
    /\ storeAtPass = failedJson
    /\ rewarded = {} /\ succeeded = {}
    /\ call \in UpdateCalls \cup FilterCalls \cup JournalCalls \cup ScanCalls
               \cup {c \in PickCalls : c.root.exists \/ c.root.dirs = <<>>}
    /\ ret = <<>>
    /\ serialised = TRUE /\ upd = <<>>
    /\ SelIdle
    /\ PassIdle

\* update_failed_ids on the file, then once more on the file it left.
CallUpdateFailedIds ==
    /\ call.fn = "update_failed_ids"
    /\ Len(ret) < 2
    /\ ret' = Append(ret, update_failed_ids(
                 IF ret = <<>> THEN call.ids ELSE ret[Len(ret)].file,
                 call.success_ids))
    /\ UNCHANGED <<pc, error, run, overwrite, files, locals, observed, call, concVars, selVars, passVars>>

CallFilterOverfailed ==
    /\ call.fn = "filter_overfailed"
    /\ ret = <<>>
    /\ ret' = <<filter_overfailed(call.ids, call.fail_counts, call.max_failures)>>
    /\ UNCHANGED <<pc, error, run, overwrite, files, locals, observed, call, concVars, selVars, passVars>>

CallLoadFailureCounts ==
    /\ call.fn = "load_failure_counts"
    /\ ret = <<>>
    /\ ret' = <<load_failure_counts(call.journal)>>
    /\ UNCHANGED <<pc, error, run, overwrite, files, locals, observed, call, concVars, selVars, passVars>>

CallIterSuccesses ==
    /\ call.fn = "iter_successes"
    /\ ret = <<>>
    /\ ret' = <<iter_successes(call.entries)>>
    /\ UNCHANGED <<pc, error, run, overwrite, files, locals, observed, call, concVars, selVars, passVars>>

CallPickRunDir ==
    /\ call.fn = "pick_run_dir"
    /\ ret = <<>>
    /\ ret' = <<pick_run_dir(call.root, call.before)>>
    /\ UNCHANGED <<pc, error, run, overwrite, files, locals, observed, call, concVars, selVars, passVars>>

CallShards ==
    /\ call.fn = "shards"
    /\ ret = <<>>
    /\ ret' = <<[i \in 0..(call.num_shards - 1) |->
                    Shard(call.env_args_list, call.num_shards, i)]>>
    /\ UNCHANGED <<pc, error, run, overwrite, files, locals, observed, call, concVars, selVars, passVars>>

CallSelection ==
    /\ call.fn = "select"
    /\ ret = <<>>
    /\ ret' = <<Selection(call.env_args_list, call.shards.num_shards,
                          call.shards.shard_index, call.offset, call.limit)>>
    /\ UNCHANGED <<pc, error, run, overwrite, files, locals, observed, call, concVars, selVars, passVars>>

\* The glob filter then the range filter, and the two in the other order.
CallFilters ==
    /\ call.fn = "filters"
    /\ ret = <<>>
    /\ ret' = <<FilterRange(FilterGlob(call.env_args_list, call.task_name_glob),
                            call.task_id_range[1], call.task_id_range[2]),
                FilterGlob(FilterRange(call.env_args_list, call.task_id_range[1],
                                       call.task_id_range[2]),
                           call.task_name_glob)>>
    /\ UNCHANGED <<pc, error, run, overwrite, files, locals, observed, call, concVars, selVars, passVars>>

SelFnNext ==
    \/ CallShards
    \/ CallSelection
    \/ CallFilters

FnNext ==
    \/ CallPickRunDir
    \/ CallUpdateFailedIds
    \/ CallFilterOverfailed
    \/ CallLoadFailureCounts
    \/ CallIterSuccesses

FnSpec == FnInit /\ [][FnNext]_vars

\* The selector's filters and final selection on drawn catalogs and directives.
SelFnInit ==
    /\ pc = "idle"
    /\ error = "none"
    /\ run = 0
    /\ overwrite = FALSE
    /\ journalShape = "missing"
    /\ failedJson = [shape |-> "list_of_str", ids |-> <<>>]
    /\ taskIdsOut = [exists |-> FALSE, ids |-> <<>>]
    /\ runsRoot = [exists |-> FALSE, dirs |-> <<>>]
    /\ destRoot = [exists |-> FALSE, folders |-> {}]
    /\ failed_ids = <<>> /\ filtered_ids = <<>> /\ overfailed = {} /\ selected_ids = <<>> /\ limit = 0
    /\ before_dirs = {} /\ run_dir = 0
    /\ successes = <<>> /\ copy_i = 0 /\ copied = 0 /\ skipped = 0
    /\ engineCalls = 0 /\ passes = 0 /\ storeWrites = 0 /\ batchWrites = 0
    /\ exitCode = -1
    /\ storeAtStart = failedJson /\ destAtStart = destRoot /\ rootAtStart = runsRoot
    /\ storeAtPass = failedJson
    /\ rewarded = {} /\ succeeded = {}
    /\ call \in ShardCalls \cup SelectCalls \cup FilterPairCalls
    /\ ret = <<>>
    /\ serialised = TRUE /\ upd = <<>>
    /\ SelIdle
    /\ PassIdle

SelFnSpec == SelFnInit /\ [][SelFnNext]_vars

\* ------------------------- reconciliation passes sharing one failed-ID store
\* Two process_rerun_results.py processes given the same --failed-json, each
\* with the success IDs of its own run directory.
Passes == {1, 2}

ConcInit ==
    /\ pc = "idle"
    /\ error = "none"
    /\ run = 0
    /\ overwrite = FALSE
    /\ journalShape = "missing"
    /\ failedJson \in ExtractorStores
    /\ taskIdsOut = [exists |-> FALSE, ids |-> <<>>]
    /\ runsRoot = [exists |-> FALSE, dirs |-> <<>>]
    /\ destRoot = [exists |-> FALSE, folders |-> {}]
    /\ failed_ids = <<>> /\ filtered_ids = <<>> /\ overfailed = {}
    /\ selected_ids = <<>> /\ limit = 0
    /\ before_dirs = {} /\ run_dir = 0
    /\ successes = <<>> /\ copy_i = 0 /\ copied = 0 /\ skipped = 0
    /\ engineCalls = 0 /\ passes = 0 /\ storeWrites = 0 /\ batchWrites = 0
    /\ exitCode = -1
    /\ storeAtStart = failedJson /\ destAtStart = destRoot /\ rootAtStart = runsRoot
    /\ storeAtPass = failedJson
    /\ rewarded = {} /\ succeeded = {}
    /\ call = NoCall /\ ret = <<>>
    /\ serialised \in BOOLEAN
    /\ upd \in [Passes -> [pc : {"start"}, success_ids : SUBSET TaskIds,
                           failed_ids : {<<>>}]]
    /\ SelIdle
    /\ PassIdle

\* With one writer at a time, no other pass is between its read and its write.
Exclusive(p) == serialised => \A q \in Passes \ {p} : upd[q].pc # "read"

\* if success_ids: is false: update_failed_ids is not called.
SkipUpdate(p) ==
    /\ upd[p].pc = "start"
    /\ upd[p].success_ids = {}
    /\ upd' = [upd EXCEPT ![p].pc = "done"]
    /\ UNCHANGED <<pc, error, run, overwrite, files, locals, observed, call, ret,
                   serialised, selVars, passVars>>

\* update_failed_ids: failed_ids = json.load(f)
ReadFailedIds(p) ==
    /\ upd[p].pc = "start"
    /\ upd[p].success_ids # {}
    /\ Exclusive(p)
    /\ upd' = [upd EXCEPT ![p].pc = "read", ![p].failed_ids = failedJson.ids]
    /\ UNCHANGED <<pc, error, run, overwrite, files, locals, observed, call, ret,
                   serialised, selVars, passVars>>

\* update_failed_ids: new_failed = [...]; if new_failed != failed_ids: json.dump
WriteFailedIds(p) ==
    /\ upd[p].pc = "read"
    /\ LET new_failed == Prune(upd[p].failed_ids, upd[p].success_ids)
       IN failedJson' = IF ShouldWrite(upd[p].failed_ids, new_failed)
                        THEN [failedJson EXCEPT !.ids = new_failed]
                        ELSE failedJson
    /\ upd' = [upd EXCEPT ![p].pc = "done"]
    /\ UNCHANGED <<pc, error, run, overwrite, journalShape, taskIdsOut, runsRoot,
                   destRoot, locals, observed, call, ret, serialised, selVars, passVars>>

ConcNext ==
    \E p \in Passes :
        \/ SkipUpdate(p)
        \/ ReadFailedIds(p)
        \/ WriteFailedIds(p)

ConcSpec == ConcInit /\ [][ConcNext]_vars

\* ================================================================ claims
\* out is the sublist of list at the positions in keep, in the same order.
KeptIndex(keep, k) == CHOOSE i \in keep : Cardinality({j \in keep : j <= i}) = k

IsSublistAt(out, list, keep) ==
    /\ Len(out) = Cardinality(keep)
    /\ \A k \in 1..Len(out) : out[k] = list[KeptIndex(keep, k)]

\* The run has handed, or is about to hand, selected_ids to the engine.
BatchChosen == pc \in {"selected", "written", "snapshotted"}

\* The pass is past update_failed_ids.
PastPrune ==
    \/ pc \in {"pruned", "copying", "reconciled", "done"}
    \/ pc = "fatal" /\ error \in {"copy_successes", "update_dry_run"}

\* C1: a fullId for which a completed reconciliation pass scanned a folder with
\* cum_reward == 1 is never in the batch of a later pipeline run, and is no
\* longer in the failed-ID store.
C1_SucceededNeverRerun ==
    /\ succeeded \cap Range(failedJson.ids) = {}
    /\ BatchChosen => succeeded \cap Range(selected_ids) = {}

C1_Witness ==
    /\ pc = "snapshotted"
    /\ succeeded # {}
    /\ selected_ids # <<>>
    /\ run = 2

\* C2: pruning is idempotent: update_failed_ids applied to the store it left,
\* with the same success IDs, leaves the same store.
C2_PruneIdempotent ==
    (call.fn = "update_failed_ids" /\ Len(ret) = 2) => ret[2].file = ret[1].file

C2_Witness ==
    /\ call.fn = "update_failed_ids"
    /\ Len(ret) = 2
    /\ ret[1].written
    /\ ret[1].file # <<>>

\* C3: after update_failed_ids(L, S) the store is L without the elements of S:
\* no ID of S is left, every other ID of L is kept, in the order of L.
C3_PruneExact ==
    (call.fn = "update_failed_ids" /\ Len(ret) >= 1) =>
        /\ Range(ret[1].file) \cap call.success_ids = {}
        /\ IsSublistAt(ret[1].file, call.ids,
                       {i \in 1..Len(call.ids) : call.ids[i] \notin call.success_ids})

C3_Witness ==
    /\ call.fn = "update_failed_ids"
    /\ Len(ret) >= 1
    /\ Len(call.ids) = 3
    /\ call.ids[1] \notin call.success_ids
    /\ call.ids[2] \in call.success_ids
    /\ call.ids[3] \notin call.success_ids
    /\ call.ids[1] # call.ids[3]

\* C4: a reconciliation pass writes the failed-ID store at most once, only when
\* the pruned content differs from the content read, and not at all when no
\* success ID is in the store.
C4_WriteOnlyIfChanged ==
    /\ storeWrites <= 1
    /\ storeWrites = 1 => failedJson.ids # storeAtPass.ids
    /\ (PastPrune /\ rewarded \cap Range(storeAtPass.ids) = {}) =>
          storeWrites = 0 /\ failedJson = storeAtPass

C4_Witness ==
    /\ pc = "pruned"
    /\ rewarded # {}
    /\ storeAtPass.ids # <<>>
    /\ storeWrites = 0

\* C5: a reconciliation pass that aborts with a fatal error (in the scan or in
\* artifact promotion) leaves the failed-ID store as it was read.
C5_AbortedPassLeavesStore ==
    (pc = "fatal" /\ error \in {"iter_successes", "copy_successes"}) =>
        failedJson = storeAtPass

\* C6: a non-zero exit of the engine is fatal to the run: no run directory is
\* detected, no reconciliation pass is started, and the failed-ID store and the
\* destination root are as they were when the run began.
C6_EngineFailureFatal ==
    (exitCode # -1 /\ exitCode # 0) =>
        /\ pc = "fatal" /\ error = "engine"
        /\ run_dir = 0 /\ passes = 0
        /\ failedJson = storeAtStart
        /\ destRoot = destAtStart

C6_Witness ==
    /\ pc = "fatal" /\ error = "engine"
    /\ exitCode = 1
    /\ list_dirs(runsRoot) # before_dirs

\* C7: in one pipeline run the engine is invoked at most once and at most one
\* reconciliation pass is started.
C7_AtMostOneInvocation == engineCalls <= 1 /\ passes <= 1

C7_Witness == pc = "done" /\ engineCalls = 1 /\ passes = 1 /\ run = 2

\* C8: an empty store, an empty eligible list or an empty batch ends the run
\* with "nothing to do": the batch file is not written, the engine is not
\* invoked, and the failed-ID store is not touched.
C8_NothingToDo ==
    /\ pc \in {"loaded", "eligible"} => failed_ids # <<>>
    /\ pc \in {"selected", "written", "snapshotted", "invoked", "detected", "scanned",
               "pruned", "copying", "reconciled", "done"} =>
          failed_ids # <<>> /\ filtered_ids # <<>> /\ selected_ids # <<>>
    /\ engineCalls > 0 \/ batchWrites > 0 => selected_ids # <<>>
    /\ pc = "nothing_to_do" =>
          /\ batchWrites = 0 /\ engineCalls = 0 /\ passes = 0
          /\ failedJson = storeAtStart
          /\ failed_ids = <<>> \/ filtered_ids = <<>> \/ selected_ids = <<>>

C8_Witness ==
    /\ pc = "nothing_to_do"
    /\ failed_ids # <<>>
    /\ filtered_ids = <<>>

BadStore == failedJson.shape # "list_of_str"

\* C9 as stated: with a failed-ID store or a journal that is not valid JSON or
\* not of the expected shape, the run never gets to write the batch file, to
\* invoke the engine or to touch the store.
C9_BadDataIsFatal ==
    (run > 0 /\ (BadStore \/ journalShape \in {"invalid_json", "not_list", "list_of_non_objects"})) =>
        /\ batchWrites = 0 /\ engineCalls = 0
        /\ failedJson = storeAtStart

\* C9 amended: a bad store is fatal when it is loaded; a journal that is not
\* valid JSON, or an array holding a non-record, is fatal when it is loaded, which
\* happens only when the store is not empty (an empty store ends the run with
\* "nothing to do" before the journal is read); in both cases no batch file is
\* written, the engine is not invoked and the store is not touched. A journal that
\* is valid JSON but no array is read as no recorded failures.
C9_BadDataAmended ==
    /\ (run > 0 /\ BadStore) =>
          /\ pc \in {"start", "fatal"}
          /\ pc = "fatal" => error = "load_failed_ids"
          /\ batchWrites = 0 /\ engineCalls = 0 /\ failedJson = storeAtStart
    /\ (run > 0 /\ ~BadStore /\ journalShape \in {"invalid_json", "list_of_non_objects"}) =>
          /\ pc \in {"start", "loaded", "fatal", "nothing_to_do"}
          /\ pc = "fatal" => error = "load_failure_counts"
          /\ pc = "nothing_to_do" => failedJson.ids = <<>>
          /\ batchWrites = 0 /\ engineCalls = 0 /\ failedJson = storeAtStart

C9_Witness ==
    /\ pc = "fatal"
    /\ error = "load_failure_counts"
    /\ journalShape = "invalid_json"

CountedJournal == call.fn = "load_failure_counts" /\ ret # <<>> /\ ~ret[1].raised

\* C12: the failure count of a task is the number of its journal entries whose
\* first trajectory record with a matching path has reward 0: an entry adds at
\* most one to the count.
C12_FirstMatchCounts ==
    CountedJournal =>
        \A t \in TaskIds :
            Get(ret[1].counts, t, 0) =
                Cardinality(FirstMatchFailures(call.journal.entries, t))

\* C13: a task none of whose journal entries holds a trajectory record with a
\* matching path is absent from the failure counts, and entries without a
\* task_id add to no count.
C13_NoMatchNoCount ==
    CountedJournal =>
        /\ \A t \in TaskIds :
              (\A i \in 1..Len(call.journal.entries) :
                    call.journal.entries[i].task_id = t =>
                        FirstL2(call.journal.entries[i].trajectory_records) = 0)
                 => t \notin DOMAIN ret[1].counts
        /\ NoTaskId \notin DOMAIN ret[1].counts

\* C14: the batch handed to the engine is the first min(limit, len(eligible))
\* entries of the eligible list, in order: a prefix of the eligible list, made of
\* IDs of the store read at the start of the run, and no longer than limit; the
\* batch file the engine reads holds exactly that batch.
C14_BatchIsPrefix ==
    /\ BatchChosen =>
          LET k == IF limit < Len(filtered_ids) THEN limit ELSE Len(filtered_ids)
          IN /\ Len(selected_ids) = k
             /\ \A i \in 1..k : selected_ids[i] = filtered_ids[i]
             /\ Range(selected_ids) \subseteq Range(storeAtStart.ids)
             /\ Len(selected_ids) <= limit
    /\ engineCalls > 0 => taskIdsOut.ids = selected_ids

C14_Witness ==
    /\ pc = "invoked"
    /\ Len(filtered_ids) = 2
    /\ limit = 1
    /\ selected_ids = <<filtered_ids[1]>>
    /\ taskIdsOut.ids = selected_ids

Scanned == call.fn = "iter_successes" /\ ret # <<>>

\* The summary document of a folder: summary_info.json if it exists, else
\* summary.json, else none.
FirstDoc(f) == IF f.summary_info.kind # "absent" THEN f.summary_info ELSE f.summary

RewardIsOne(d) == d.kind = "object" /\ d.has_cum /\ d.cum_reward = <<1, 1>>

\* The success record of entry i is in the result.
Yielded(i) ==
    \E k \in 1..Len(ret[1].successes) :
        ret[1].successes[k].run_dir = call.entries[i].name

\* C15: a run sub-folder yields a success record iff its name contains "_on_",
\* it has a summary document and that summary's cum_reward is exactly 1, the
\* record's fullId being the name's part after the first "_on_"; a folder whose
\* summary has cum_reward 0.5 or 0, or whose name has no delimiter, yields no
\* success and no error.
C15_SuccessIffRewardOne ==
    Scanned =>
        /\ \A i \in 1..Len(call.entries) :
              LET f == call.entries[i]
              IN Yielded(i) => /\ f.is_dir /\ f.name.has_delim
                               /\ FirstDoc(f).kind # "absent"
                               /\ RewardIsOne(FirstDoc(f))
        /\ \A k \in 1..Len(ret[1].successes) :
              ret[1].successes[k].task_id = ret[1].successes[k].run_dir.tail
        /\ (\A i \in 1..Len(call.entries) :
                LET f == call.entries[i]
                IN /\ f.is_dir
                   /\ \/ ~f.name.has_delim
                      \/ /\ FirstDoc(f).kind = "object" /\ FirstDoc(f).has_cum
                         /\ FirstDoc(f).cum_reward \in {<<0, 1>>, <<1, 2>>})
            => /\ ~ret[1].raised
               /\ ret[1].successes = <<>>

\* C16: the summary is summary_info.json when that file exists, whatever
\* summary.json holds, so a folder whose summary_info.json has a cum_reward other
\* than 1 is no success; a folder with neither file is skipped, and a scan in
\* which no document fails to load yields exactly the folders whose summary
\* has cum_reward 1.
C16_FirstSummaryWins ==
    Scanned =>
        /\ \A i \in 1..Len(call.entries) :
              LET f == call.entries[i]
              IN (f.summary_info.kind # "absent" /\ ~RewardIsOne(f.summary_info))
                    => ~Yielded(i)
        /\ ~ret[1].raised =>
              \A i \in 1..Len(call.entries) :
                  LET f == call.entries[i]
                  IN Yielded(i) <=> /\ f.is_dir /\ f.name.has_delim
                                    /\ RewardIsOne(FirstDoc(f))

C16_Witness ==
    /\ Scanned
    /\ Len(call.entries) = 2
    /\ call.entries[1].is_dir /\ call.entries[1].name.has_delim
    /\ call.entries[1].summary_info = Summary(<<0, 1>>)
    /\ call.entries[1].summary = Summary(<<1, 1>>)
    /\ call.entries[2].is_dir /\ call.entries[2].name.has_delim
    /\ call.entries[2].summary_info = Absent
    /\ call.entries[2].summary = Summary(<<1, 1>>)
    /\ Len(ret[1].successes) = 1
    /\ ret[1].successes[1].run_dir = call.entries[2].name

\* C17: a folder whose summary document cannot be parsed is skipped without a
\* fatal error: the scan of a run directory never aborts the pass, and the
\* successes of the other folders of the directory are found.
C17_UnparseableSkipped ==
    /\ pc = "fatal" => error # "iter_successes"
    /\ passes > 0 =>
          \/ pc = "detected"
          \/ rewarded = RewardedIds(DirNamed(runsRoot, run_dir).folders)

\* copy_successes has returned.
Promoted ==
    \/ pc \in {"reconciled", "done"}
    \/ pc = "fatal" /\ error = "update_dry_run"

\* C18: promotion copies every successful run folder to the destination root
\* under its own name; a folder whose name is already there is skipped, the
\* destination left as it is, unless overwrite is set; and the counts returned
\* satisfy copied + skipped = number of success records.
C18_Promotion ==
    /\ [](Promoted =>
            /\ copied + skipped = Len(successes)
            /\ \A i \in 1..Len(successes) :
                  \E f \in destRoot.folders : f.name = successes[i].run_dir)
    /\ [][(pc = "copying" /\ copy_i <= Len(successes)) =>
            LET name == successes[copy_i].run_dir
                there == \E f \in destRoot.folders : f.name = name
            IN IF there /\ ~overwrite
               THEN destRoot' = destRoot /\ skipped' = skipped + 1 /\ copied' = copied
               ELSE \/ pc' = "fatal"
                    \/ /\ copied' = copied + 1 /\ skipped' = skipped
                       /\ [name |-> name, complete |-> TRUE] \in destRoot'.folders
                       /\ \A f \in destRoot.folders :
                             f.name # name => f \in destRoot'.folders]_vars

C18_Witness ==
    /\ pc = "reconciled"
    /\ ~overwrite
    /\ skipped = 1
    /\ destRoot = destAtStart
    /\ \E f \in destRoot.folders : f.name = successes[1].run_dir

Picked == call.fn = "pick_run_dir" /\ ret # <<>>

\* The position of directory d in the root's modification order.
MTime(root, d) == CHOOSE i \in 1..Len(root.dirs) : root.dirs[i].name = d

NamesIn(root) == {root.dirs[i].name : i \in 1..Len(root.dirs)}

\* C19: when directories are new after the invocation (after minus before),
\* detection returns a new one: the only one if there is exactly one, the most
\* recently modified of them if there are several; never a directory of the
\* before-snapshot.
C19_NewDirectoryWins ==
    Picked =>
        LET new == NamesIn(call.root) \ call.before
        IN new # {} =>
              /\ ~ret[1].raised
              /\ ret[1].run_dir \in new
              /\ ret[1].run_dir \notin call.before
              /\ \A d \in new : MTime(call.root, d) <= MTime(call.root, ret[1].run_dir)

C19_Witness ==
    /\ Picked
    /\ call.before = {1}
    /\ Len(call.root.dirs) = 3
    /\ call.root.dirs[1].name = 2
    /\ call.root.dirs[2].name = 3
    /\ call.root.dirs[3].name = 1
    /\ ret[1].run_dir = 3

\* C20: when no directory is new after the invocation, detection returns the
\* most recently modified directory of the root; when the root is missing or
\* holds no directory after a clean invocation, detection is fatal and no
\* reconciliation pass is started: the store and the destination root are as
\* they were when the run began.
C20_FallbackOrFatal ==
    /\ (pc = "detected" /\ NamesIn(runsRoot) \ before_dirs = {}) =>
          /\ run_dir \in NamesIn(runsRoot)
          /\ \A d \in NamesIn(runsRoot) : MTime(runsRoot, d) <= MTime(runsRoot, run_dir)
    /\ (exitCode = 0 /\ (~runsRoot.exists \/ NamesIn(runsRoot) = {})) =>
          /\ pc \in {"invoked", "fatal"}
          /\ pc = "fatal" => error = "pick_run_dir"
          /\ run_dir = 0 /\ passes = 0
          /\ failedJson = storeAtStart /\ destRoot = destAtStart
    /\ (pc = "fatal" /\ error = "pick_run_dir") =>
          ~runsRoot.exists \/ NamesIn(runsRoot) = {}

C20_Witness ==
    /\ pc = "detected"
    /\ NamesIn(runsRoot) \ before_dirs = {}
    /\ Len(runsRoot.dirs) = 2
    /\ runsRoot.dirs[1].name = 2
    /\ run_dir = 1

\* The positions of main, in the order of its statements.
StepOrder ==
    <<"start", "loaded", "eligible", "selected", "written", "snapshotted", "invoked",
      "detected", "scanned", "pruned", "copying", "reconciled", "done">>

\* C21: the steps of a run happen in one order, none repeated: load the failed
\* IDs, compute the eligible list, select the batch, write the batch file,
\* snapshot the runs root, invoke the engine, detect the run directory,
\* reconcile; the batch file and the snapshot are taken before the invocation
\* (the snapshot is of the root as it was when the run began), and detection
\* and reconciliation happen only after the engine has returned.
C21_StepOrder ==
    /\ [][pc' # pc =>
            \/ \E i \in 1..(Len(StepOrder) - 1) : pc = StepOrder[i] /\ pc' = StepOrder[i + 1]
            \/ pc' = "fatal"
            \/ pc \in {"start", "eligible"} /\ pc' = "nothing_to_do"
            \/ pc \in {"idle", "nothing_to_do", "done", "fatal"} /\ pc' = "start"]_vars
    /\ [](engineCalls > 0 =>
            /\ batchWrites = 1 /\ taskIdsOut.ids = selected_ids
            /\ before_dirs = list_dirs(rootAtStart))
    /\ []((run_dir # 0 \/ passes > 0) => (engineCalls = 1 /\ exitCode = 0))
    /\ [](passes > 0 => run_dir # 0)
    /\ [](batchWrites <= 1 /\ engineCalls <= 1 /\ passes <= 1)

C21_Witness ==
    /\ pc = "done"
    /\ batchWrites = 1 /\ engineCalls = 1 /\ passes = 1
    /\ run_dir \notin before_dirs
    /\ before_dirs # {}

\* The run has selected a non-empty batch.
PastSelect == \E i \in 4..Len(StepOrder) : pc = StepOrder[i]

\* C22: end to end. When limit >= len(eligible), the batch is the store L
\* without the IDs the journal gives more than maxFailures failures, in order.
\* After a clean engine run whose new run directory holds success folders for
\* the set S of batch IDs, the store is L without S, in order, the over-failed
\* IDs still in it, and one folder per success folder is in the destination
\* root: copied + skipped = |S|, and all of them copied when none was there
\* before.
C22_EndToEnd ==
    /\ (PastSelect /\ limit >= Len(filtered_ids)) =>
          IsSublistAt(selected_ids, storeAtStart.ids,
              {i \in 1..Len(storeAtStart.ids) : storeAtStart.ids[i] \notin overfailed})
    /\ (pc \in {"reconciled", "done"} /\ run_dir \notin before_dirs) =>
          /\ rewarded \subseteq Range(selected_ids)
          /\ IsSublistAt(failedJson.ids, storeAtStart.ids,
                 {i \in 1..Len(storeAtStart.ids) : storeAtStart.ids[i] \notin rewarded})
          /\ overfailed \subseteq Range(failedJson.ids)
          /\ copied + skipped = Cardinality(rewarded)
          /\ \A t \in rewarded :
                \E f \in destRoot.folders : f.name.has_delim /\ f.name.tail = t
          /\ (\A f \in destAtStart.folders : f.name.tail \notin rewarded) =>
                /\ copied = Cardinality(rewarded)
                /\ Cardinality(destRoot.folders) =
                      Cardinality(destAtStart.folders) + Cardinality(rewarded)

\* C23: the failed-ID store holds no ID twice: not as extracted from the
\* journal, and not after any reconciliation pass.
C23_NoDuplicates ==
    failedJson.shape = "list_of_str" =>
        \A i, j \in 1..Len(failedJson.ids) :
            failedJson.ids[i] = failedJson.ids[j] => i = j

C23_Witness ==
    /\ pc = "pruned"
    /\ storeWrites = 1
    /\ Len(storeAtPass.ids) = 3
    /\ Len(failedJson.ids) = 2

\* The IDs pruned by a pass that has finished its update: its success IDs that
\* were in the store it read.
PrunedIds ==
    UNION {upd[p].success_ids \cap Range(upd[p].failed_ids) :
              p \in {q \in Passes : upd[q].pc = "done"}}

\* C24: with passes serialised, an ID pruned by a pass is never in the store
\* again; only passes that overlap (each reading the whole file, then writing
\* the whole file) can bring a pruned ID back.
C24_SerialisedNoLostUpdate ==
    serialised => PrunedIds \cap Range(failedJson.ids) = {}

\* The lost update: both passes are done, and an ID one of them pruned is in
\* the store the other wrote.
C24_Witness ==
    /\ ~serialised
    /\ \A p \in Passes : upd[p].pc = "done"
    /\ PrunedIds \cap Range(failedJson.ids) # {}

\* C25: for every sorted task list and every shard count > 0, the shards of
\* all indices 0..count-1 together hold exactly the tasks of the list, each
\* task once, and no task is in two shards.
C25_ShardsPartition ==
    (call.fn = "shards" /\ ret # <<>>) =>
        LET out == ret[1]
            idxs == 0..(call.num_shards - 1)
            RECURSIVE Total(_)
            Total(S) == IF S = {} THEN 0
                        ELSE LET i == CHOOSE x \in S : TRUE
                             IN Len(out[i]) + Total(S \ {i})
        IN /\ UNION {Range(out[i]) : i \in idxs} = Range(call.env_args_list)
           /\ \A i, j \in idxs : i # j => Range(out[i]) \cap Range(out[j]) = {}
           /\ Total(idxs) = Len(call.env_args_list)

C25_Witness ==
    /\ call.fn = "shards" /\ ret # <<>>
    /\ call.num_shards = 2
    /\ Len(call.env_args_list) = 3
    /\ Len(ret[1][0]) = 2 /\ Len(ret[1][1]) = 1

\* ------------------- main_webarena_generic_subset_eval.py: the command line
\* s.strip()
RECURSIVE Strip(_)
Strip(s) ==
    IF s = <<>> THEN s
    ELSE IF Head(s) = " " THEN Strip(Tail(s))
    ELSE IF s[Len(s)] = " " THEN Strip(SubSeq(s, 1, Len(s) - 1))
    ELSE s

\* s.split(",")
RECURSIVE Split(_)
Split(s) ==
    LET commas == {i \in 1..Len(s) : s[i] = ","}
    IN IF commas = {} THEN <<s>>
       ELSE LET k == CHOOSE i \in commas : \A j \in commas : i <= j
            IN <<SubSeq(s, 1, k - 1)>> \o Split(SubSeq(s, k + 1, Len(s)))

\* [item.strip() for item in items if item.strip()]
StrippedItems(items) ==
    LET F[i \in 0..Len(items)] ==
            IF i = 0 THEN <<>>
            ELSE IF Strip(items[i]) # <<>> THEN Append(F[i - 1], Strip(items[i]))
            ELSE F[i - 1]
    IN F[Len(items)]

\* The files --task-ids-json can name: a JSON list of strings, other JSON, or
\* a file that cannot be read.
TaskIdsJsonFiles ==
    {[kind |-> "list_of_str",
      items |-> <<<<"w", ".", "2">>, <<" ", "w", ".", "1", "_", "1", " ">>, <<" ">>>>],
     [kind |-> "other", items |-> <<>>],
     [kind |-> "unreadable", items |-> <<>>]}

\* --task-ids: "" and "w.1_1, w.a"
TaskIdsStrings ==
    {<<>>, <<"w", ".", "1", "_", "1", ",", " ", "w", ".", "a">>}

\* --task-id-range: "1 - 2", "2-1" and "1-a"
TaskIdRanges ==
    {<<"1", " ", "-", " ", "2">>, <<"2", "-", "1">>, <<"1", "-", "a">>}

\* The command lines: every option absent (None) or given.  The metadata
\* file is read only when --start-url-filters gives tokens.
SelArgs ==
    {a \in [task_ids_json : Opt(TaskIdsJsonFiles),
            task_ids : Opt(TaskIdsStrings),
            task_name_glob : Opt({<<"w", ".", "1", "*">>}),
            task_id_range : Opt(TaskIdRanges),
            start_url_filters : Opt({"tokens", "not_list"}),
            metadata_json : {"list", "unreadable"},
            num_shards : Opt({0, MaxShards}),
            shard_index : Opt({-1, 0, MaxShards}),
            offset : 0..1,
            limit : 0..1,
            allow_full_benchmark : BOOLEAN] :
        a.metadata_json = "unreadable" => a.start_url_filters = {"tokens"}}

\* bool(s) of an optional string
Truthy(o) == o # {} /\ Val(o) # <<>>

\* _load_task_ids(args)
load_task_ids(a) ==
    IF a.task_ids_json # {} /\ Truthy(a.task_ids)
    THEN [raised |-> "only_one_of_task_ids", ids |-> <<>>]
    ELSE IF a.task_ids_json # {}
    THEN LET f == Val(a.task_ids_json)
         IN IF f.kind = "list_of_str"
            THEN [raised |-> "none", ids |-> StrippedItems(f.items)]
            ELSE [raised |-> "task_ids_json", ids |-> <<>>]
    ELSE IF Truthy(a.task_ids)
    THEN [raised |-> "none", ids |-> StrippedItems(Split(Val(a.task_ids)))]
    ELSE [raised |-> "none", ids |-> <<>>]

\* s without its leading spaces
RECURSIVE SkipSpaces(_)
SkipSpaces(s) == IF s # <<>> /\ Head(s) = " " THEN SkipSpaces(Tail(s)) ELSE s

\* re.fullmatch(r"(\d+)\s*-\s*(\d+)", s): whether it matches, and the two groups
MatchRange(s) ==
    LET p == Cardinality({k \in 1..Len(s) : \A i \in 1..k : IsDigit(s[i])})
        afterFirst == SkipSpaces(SubSeq(s, p + 1, Len(s)))
        dash == afterFirst # <<>> /\ Head(afterFirst) = "-"
        second == IF dash THEN SkipSpaces(Tail(afterFirst)) ELSE <<>>
    IN [matched |-> /\ p >= 1
                    /\ dash
                    /\ second # <<>>
                    /\ \A i \in 1..Len(second) : IsDigit(second[i]),
        first |-> SubSeq(s, 1, p),
        second |-> second]

\* _parse_id_range(raw): None as {}
parse_id_range(raw) ==
    IF ~Truthy(raw) THEN [raised |-> "none", range |-> {}]
    ELSE LET match == MatchRange(Strip(Val(raw)))
         IN IF ~match.matched THEN [raised |-> "task_id_range", range |-> {}]
            ELSE IF ParseInt(match.second) < ParseInt(match.first)
            THEN [raised |-> "task_id_range", range |-> {}]
            ELSE [raised |-> "none",
                  range |-> {<<ParseInt(match.first), ParseInt(match.second)>>}]

\* _parse_start_url_filters(raw): the tokens, or no token
parse_start_url_filters(raw) ==
    IF raw = {} THEN [raised |-> "none", filters |-> {}]
    ELSE IF Val(raw) = "not_list" THEN [raised |-> "start_url_filters", filters |-> {}]
    ELSE [raised |-> "none", filters |-> raw]

HasSelectorOneShard(a, ids, range, filters) ==
    \/ ids # <<>>
    \/ Truthy(a.task_name_glob)
    \/ range # {}
    \/ filters # {}
    \/ a.num_shards # {} \/ a.shard_index # {}
    \/ a.offset > 0
    \/ a.limit > 0

\* has_selector = any((...))
has_selector(a, ids, range, filters) ==
    \/ ids # <<>>
    \/ Truthy(a.task_name_glob)
    \/ range # {}
    \/ filters # {}
    \/ a.num_shards # {} /\ a.shard_index # {}
    \/ a.offset > 0
    \/ a.limit > 0

\* The index sets _matching_webarena_indices_from_metadata can return.
MatchedIndices == SUBSET {1, 10}

ShardErrorNoIndexCheck(a) ==
    IF a.num_shards = {} \/ a.shard_index = {} THEN "shards_together"
    ELSE IF Val(a.num_shards) <= 0 THEN "num_shards"
    ELSE "none"

\* The checks on --num-shards and --shard-index
ShardError(a) ==
    IF a.num_shards = {} \/ a.shard_index = {} THEN "shards_together"
    ELSE IF Val(a.num_shards) <= 0 THEN "num_shards"
    ELSE IF Val(a.shard_index) < 0 \/ Val(a.shard_index) >= Val(a.num_shards)
    THEN "shard_index"
    ELSE "none"

\* --------------------- main_webarena_generic_subset_eval.main, step by step
SelStep(to) == selPc' = to /\ selError' = "none"

SelExit(e) == selPc' = "exit" /\ selError' = e

SelInit ==
    /\ pc = "idle"
    /\ error = "none"
    /\ run = 0
    /\ overwrite = FALSE
    /\ journalShape = "missing"
    /\ failedJson = [shape |-> "list_of_str", ids |-> <<>>]
    /\ taskIdsOut = [exists |-> FALSE, ids |-> <<>>]
    /\ runsRoot = [exists |-> FALSE, dirs |-> <<>>]
    /\ destRoot = [exists |-> FALSE, folders |-> {}]
    /\ failed_ids = <<>> /\ filtered_ids = <<>> /\ overfailed = {}
    /\ selected_ids = <<>> /\ limit = 0
    /\ before_dirs = {} /\ run_dir = 0
    /\ successes = <<>> /\ copy_i = 0 /\ copied = 0 /\ skipped = 0
    /\ engineCalls = 0 /\ passes = 0 /\ storeWrites = 0 /\ batchWrites = 0
    /\ exitCode = -1
    /\ storeAtStart = failedJson /\ destAtStart = destRoot /\ rootAtStart = runsRoot
    /\ storeAtPass = failedJson
    /\ rewarded = {} /\ succeeded = {}
    /\ call = NoCall /\ ret = <<>>
    /\ serialised = TRUE /\ upd = <<>>
    /\ SelIdle
    /\ PassIdle

\* args = _parse_args()
ParseArgs ==
    /\ selPc = "idle"
    /\ args' \in SelArgs
    /\ SelStep("parsed")
    /\ UNCHANGED <<task_ids, task_id_range, start_url_filters, env_args_list, loads, launches>>
    /\ UNCHANGED notSel

\* task_ids = _load_task_ids(args)
LoadTaskIds ==
    /\ selPc = "parsed"
    /\ LET r == load_task_ids(args)
       IN IF r.raised # "none"
          THEN SelExit(r.raised) /\ UNCHANGED task_ids
          ELSE SelStep("ids_loaded") /\ task_ids' = r.ids
    /\ UNCHANGED <<args, task_id_range, start_url_filters, env_args_list, loads, launches>>
    /\ UNCHANGED notSel

\* task_id_range = _parse_id_range(args.task_id_range)
ParseIdRange ==
    /\ selPc = "ids_loaded"
    /\ LET r == parse_id_range(args.task_id_range)
       IN IF r.raised # "none"
          THEN SelExit(r.raised) /\ UNCHANGED task_id_range
          ELSE SelStep("range_parsed") /\ task_id_range' = r.range
    /\ UNCHANGED <<args, task_ids, start_url_filters, env_args_list, loads, launches>>
    /\ UNCHANGED notSel

\* start_url_filters = _parse_start_url_filters(args.start_url_filters)
ParseStartUrlFilters ==
    /\ selPc = "range_parsed"
    /\ LET r == parse_start_url_filters(args.start_url_filters)
       IN IF r.raised # "none"
          THEN SelExit(r.raised) /\ UNCHANGED start_url_filters
          ELSE SelStep("filters_parsed") /\ start_url_filters' = r.filters
    /\ UNCHANGED <<args, task_ids, task_id_range, env_args_list, loads, launches>>
    /\ UNCHANGED notSel

\* if not has_selector and not args.allow_full_benchmark: raise SystemExit
CheckSelector ==
    /\ selPc = "filters_parsed"
    /\ IF ~has_selector(args, task_ids, task_id_range, start_url_filters)
          /\ ~args.allow_full_benchmark
       THEN SelExit("no_selector")
       ELSE SelStep("checked")
    /\ UNCHANGED <<args, task_ids, task_id_range, start_url_filters, env_args_list,
                   loads, launches>>
    /\ UNCHANGED notSel

\* benchmark = bgym.DEFAULT_BENCHMARKS[args.benchmark](); env_args_list = list(...)
LoadBenchmark ==
    /\ selPc = "checked"
    /\ env_args_list' \in Catalogs(MaxSelCatalog)
    /\ loads' = loads + 1
    /\ SelStep("loaded")
    /\ UNCHANGED <<args, task_ids, task_id_range, start_url_filters, launches>>
    /\ UNCHANGED notSel

\* if task_ids: the task ID filter
IdFilter ==
    /\ selPc = "loaded"
    /\ env_args_list' = IF task_ids # <<>> THEN FilterIds(env_args_list, Range(task_ids))
                        ELSE env_args_list
    /\ SelStep("ids_filtered")
    /\ UNCHANGED <<args, task_ids, task_id_range, start_url_filters, loads, launches>>
    /\ UNCHANGED notSel

\* if args.task_name_glob: the task_name glob filter
GlobFilter ==
    /\ selPc = "ids_filtered"
    /\ env_args_list' = IF Truthy(args.task_name_glob)
                        THEN FilterGlob(env_args_list, Val(args.task_name_glob))
                        ELSE env_args_list
    /\ SelStep("glob_filtered")
    /\ UNCHANGED <<args, task_ids, task_id_range, start_url_filters, loads, launches>>
    /\ UNCHANGED notSel

\* if task_id_range is not None: the task ID range filter
RangeFilter ==
    /\ selPc = "glob_filtered"
    /\ env_args_list' = IF task_id_range # {}
                        THEN FilterRange(env_args_list, Val(task_id_range)[1],
                                         Val(task_id_range)[2])
                        ELSE env_args_list
    /\ SelStep("range_filtered")
    /\ UNCHANGED <<args, task_ids, task_id_range, start_url_filters, loads, launches>>
    /\ UNCHANGED notSel

\* if start_url_filters: the start_url metadata filter
StartUrlFilter ==
    /\ selPc = "range_filtered"
    /\ IF start_url_filters = {}
       THEN SelStep("url_filtered") /\ UNCHANGED env_args_list
       ELSE IF args.metadata_json = "unreadable"
       THEN SelExit("metadata_json") /\ UNCHANGED env_args_list
       ELSE /\ \E matched_indices \in MatchedIndices :
                  env_args_list' = FilterStartUrl(env_args_list, matched_indices)
            /\ SelStep("url_filtered")
    /\ UNCHANGED <<args, task_ids, task_id_range, start_url_filters, loads, launches>>
    /\ UNCHANGED notSel

\* env_args_list = sorted(env_args_list, key=_full_task_id)
SortTasks ==
    /\ selPc = "url_filtered"
    /\ env_args_list' = SortedByFullId(env_args_list)
    /\ SelStep("sorted")
    /\ UNCHANGED <<args, task_ids, task_id_range, start_url_filters, loads, launches>>
    /\ UNCHANGED notSel

\* if args.num_shards is not None or args.shard_index is not None: ...
ShardTasks ==
    /\ selPc = "sorted"
    /\ IF args.num_shards = {} /\ args.shard_index = {}
       THEN SelStep("sharded") /\ UNCHANGED env_args_list
       ELSE IF ShardError(args) # "none"
       THEN SelExit(ShardError(args)) /\ UNCHANGED env_args_list
       ELSE /\ env_args_list' = Shard(env_args_list, Val(args.num_shards),
                                      Val(args.shard_index))
            /\ SelStep("sharded")
    /\ UNCHANGED <<args, task_ids, task_id_range, start_url_filters, loads, launches>>
    /\ UNCHANGED notSel

\* if args.offset > 0: ...
OffsetTasks ==
    /\ selPc = "sharded"
    /\ env_args_list' = Offset(env_args_list, args.offset)
    /\ SelStep("offset")
    /\ UNCHANGED <<args, task_ids, task_id_range, start_url_filters, loads, launches>>
    /\ UNCHANGED notSel

\* if args.limit > 0: ...
LimitTasks ==
    /\ selPc = "offset"
    /\ env_args_list' = Limit(env_args_list, args.limit)
    /\ SelStep("limited")
    /\ UNCHANGED <<args, task_ids, task_id_range, start_url_filters, loads, launches>>
    /\ UNCHANGED notSel

\* if not env_args_list: raise SystemExit
CheckSelected ==
    /\ selPc = "limited"
    /\ IF env_args_list = <<>> THEN SelExit("no_tasks") ELSE SelStep("selected")
    /\ UNCHANGED <<args, task_ids, task_id_range, start_url_filters, env_args_list,
                   loads, launches>>
    /\ UNCHANGED notSel

\* if model_name not in CHAT_MODEL_ARGS_DICT: raise SystemExit
CheckModel ==
    /\ selPc = "selected"
    /\ \E known \in BOOLEAN :
           IF known THEN SelStep("configured") ELSE SelExit("unknown_model")
    /\ UNCHANGED <<args, task_ids, task_id_range, start_url_filters, env_args_list,
                   loads, launches>>
    /\ UNCHANGED notSel

\* if args.dry_run: return; otherwise make_study(...) and study.run(...)
LaunchStudy ==
    /\ selPc = "configured"
    /\ \E dry_run \in BOOLEAN :
           launches' = IF dry_run THEN launches ELSE launches + 1
    /\ SelStep("done")
    /\ UNCHANGED <<args, task_ids, task_id_range, start_url_filters, env_args_list, loads>>
    /\ UNCHANGED notSel

SelNext ==
    \/ ParseArgs
    \/ LoadTaskIds
    \/ ParseIdRange
    \/ ParseStartUrlFilters
    \/ CheckSelector
    \/ LoadBenchmark
    \/ IdFilter
    \/ GlobFilter
    \/ RangeFilter
    \/ StartUrlFilter
    \/ SortTasks
    \/ ShardTasks
    \/ OffsetTasks
    \/ LimitTasks
    \/ CheckSelected
    \/ CheckModel
    \/ LaunchStudy

SelSpec == SelInit /\ [][SelNext]_vars

\* The command line gives no directive that narrows the task set.
NoDirective(a) ==
    /\ load_task_ids(a).ids = <<>>
    /\ ~Truthy(a.task_name_glob)
    /\ parse_id_range(a.task_id_range).range = {}
    /\ parse_start_url_filters(a.start_url_filters).filters = {}
    /\ ~(a.num_shards # {} /\ a.shard_index # {})
    /\ a.offset <= 0
    /\ a.limit <= 0

\* C26: with no explicit IDs, no name pattern, no range, no metadata filter,
\* no shard-count/shard-index pair, offset <= 0 and limit <= 0, and without
\* the full-benchmark override, the selector stops before the catalog is
\* loaded and before any launch; it refuses for that reason in no other case.
C26_RefusesEverything ==
    /\ (selPc # "idle" /\ NoDirective(args) /\ ~args.allow_full_benchmark) =>
           /\ selPc \in {"parsed", "ids_loaded", "range_parsed", "filters_parsed", "exit"}
           /\ loads = 0
           /\ launches = 0
    /\ (selPc = "exit" /\ selError = "no_selector") =>
           /\ NoDirective(args) /\ ~args.allow_full_benchmark
           /\ loads = 0 /\ launches = 0
    /\ (selPc \in {"checked", "loaded"} /\ NoDirective(args)) => args.allow_full_benchmark

C26_Witness ==
    /\ selPc = "exit" /\ selError = "no_selector"
    /\ args.num_shards # {} /\ args.shard_index = {}
    /\ loads = 0 /\ launches = 0

\* The shard directives are not a valid pair: one is missing, the count is
\* not positive, or the index is outside [0, count).
ShardsInvalid(a) ==
    \/ (a.num_shards = {}) # (a.shard_index = {})
    \/ /\ a.num_shards # {} /\ a.shard_index # {}
       /\ \/ Val(a.num_shards) <= 0
          \/ Val(a.shard_index) < 0
          \/ Val(a.shard_index) >= Val(a.num_shards)

\* C27: when only one of shard-count and shard-index is given, or the count
\* is <= 0, or the index is outside [0, count), the selector never gets past
\* the shard step and launches nothing; it ends with a shard error only then.
C27_ShardsValidated ==
    /\ (selPc # "idle" /\ ShardsInvalid(args)) =>
           /\ selPc \notin {"sharded", "offset", "limited", "selected", "configured", "done"}
           /\ launches = 0
    /\ (selPc = "exit" /\ selError \in {"shards_together", "num_shards", "shard_index"}) =>
           /\ ShardsInvalid(args)
           /\ launches = 0
    /\ (selPc = "exit" /\ selError = "shards_together") =>
           (args.num_shards = {}) # (args.shard_index = {})
    /\ (selPc = "exit" /\ selError = "num_shards") => Val(args.num_shards) <= 0

C27_Witness ==
    /\ selPc = "exit" /\ selError = "shard_index"
    /\ Val(args.shard_index) = Val(args.num_shards)
    /\ env_args_list # <<>>
    /\ launches = 0

\* The fullId of a descriptor: its name when the seed is absent, otherwise
\* name_seed.
ExpectedFullId(ea) ==
    IF ea.task_seed = {} THEN ea.task_name
    ELSE ea.task_name \o <<"_">> \o Str(Val(ea.task_seed))

\* C30: the explicit-ID filter keeps exactly the descriptors whose fullId is
\* in the supplied ID set, in their order; a command line with both an inline
\* ID list and an ID file ends with the configuration error before the
\* catalog is loaded, filtered or launched.
C30_IdFilter ==
    /\ [][(selPc = "loaded" /\ selPc' = "ids_filtered" /\ task_ids # <<>>) =>
            env_args_list' = SelectSeq(env_args_list,
                                 LAMBDA ea : ExpectedFullId(ea) \in Range(task_ids))]_vars
    /\ []((selPc # "idle" /\ args.task_ids_json # {} /\ Truthy(args.task_ids)) =>
            /\ selPc \in {"parsed", "exit"}
            /\ selPc = "exit" => selError = "only_one_of_task_ids"
            /\ env_args_list = <<>> /\ loads = 0 /\ launches = 0)

C30_Witness ==
    /\ selPc = "ids_filtered"
    /\ args.task_ids_json = {} /\ Truthy(args.task_ids)
    /\ Len(env_args_list) = 2
    /\ env_args_list[1].task_seed # env_args_list[2].task_seed
    /\ full_task_id(env_args_list[1]) = full_task_id(env_args_list[2])

\* The tasks of a set with distinct fullIds in ascending order of fullId.
Ascending(S) ==
    CHOOSE s \in [1..Cardinality(S) -> S] :
        \A i, j \in 1..Cardinality(S) :
            i < j => StrLess(ExpectedFullId(s[i]), ExpectedFullId(s[j]))

\* The 0-based positions of a list of n tasks left by shard, offset and limit.
FinalPositions(n, shards, offset, cap) ==
    LET inShard == {p \in 0..(n - 1) :
                       shards.num_shards # {} =>
                           p % Val(shards.num_shards) = Val(shards.shard_index)}
        Rank(p) == Cardinality({q \in inShard : q < p})
    IN {p \in inShard : Rank(p) >= offset /\ (cap > 0 => Rank(p) < offset + cap)}

\* C28: over a catalog of distinct fullIds the final selection is the tasks in
\* ascending fullId order, restricted to the positions with
\* index mod shardCount = shardIndex, without the first offset of those, capped
\* to the first limit of the rest (limit 0: no cap); it is a function of the
\* catalog's content, whatever the catalog's input order.
C28_Selection ==
    (call.fn = "select" /\ ret # <<>>) =>
        LET S == Range(call.env_args_list)
            out == ret[1]
        IN (\A x, y \in S : x # y => ExpectedFullId(x) # ExpectedFullId(y)) =>
               LET sorted == Ascending(S)
                   final == FinalPositions(Cardinality(S), call.shards, call.offset,
                                           call.limit)
               IN /\ Len(out) = Cardinality(final)
                  /\ \A p \in final :
                         out[Cardinality({q \in final : q < p}) + 1] = sorted[p + 1]

C28_Witness ==
    /\ call.fn = "select" /\ ret # <<>>
    /\ call.env_args_list = <<[task_name |-> <<"w", ".", "2">>, task_seed |-> {}],
                              [task_name |-> <<"w", ".", "1", "0">>, task_seed |-> {}],
                              [task_name |-> <<"w", ".", "1">>, task_seed |-> {1}]>>
    /\ call.shards = [num_shards |-> {2}, shard_index |-> {0}]
    /\ call.offset = 1 /\ call.limit = 1
    /\ ret[1] = <<[task_name |-> <<"w", ".", "2">>, task_seed |-> {}]>>

\* C29: the name-pattern filter followed by the numeric-range filter keeps
\* exactly the descriptors that satisfy both predicates, in their order, and so
\* do the two filters applied in the other order.
C29_FiltersCompose ==
    (call.fn = "filters" /\ ret # <<>>) =>
        LET both == SelectSeq(call.env_args_list,
                        LAMBDA ea : /\ fnmatch(ea.task_name, call.task_name_glob)
                                    /\ task_number(ea.task_name) # {}
                                    /\ call.task_id_range[1] <= Val(task_number(ea.task_name))
                                    /\ Val(task_number(ea.task_name)) <= call.task_id_range[2])
        IN ret[1] = both /\ ret[2] = both

C29_Witness ==
    /\ call.fn = "filters" /\ ret # <<>>
    /\ Len(call.env_args_list) = 3
    /\ Len(FilterGlob(call.env_args_list, call.task_name_glob)) = 2
    /\ Len(FilterRange(call.env_args_list, call.task_id_range[1], call.task_id_range[2])) = 2
    /\ Len(ret[1]) = 1

\* The name ends in an integer between start and end: its longest suffix of
\* digits is not empty and reads as a number n with start <= n <= end.
EndsInRange(name, start, end) ==
    \E k \in 1..Len(name) :
        /\ \A i \in k..Len(name) : name[i] \in {"0", "1", "2", "3"}
        /\ k > 1 => name[k - 1] \notin {"0", "1", "2", "3"}
        /\ LET n == ParseInt(SubSeq(name, k, Len(name)))
           IN start <= n /\ n <= end

\* The range string is malformed ("1-a") or has end < start ("2-1").
BadRange(a) ==
    a.task_id_range \in {{<<"1", "-", "a">>}, {<<"2", "-", "1">>}}

\* C31: the numeric-range filter keeps exactly the descriptors whose name ends
\* in an integer n with start <= n <= end, in their order, and drops the names
\* with no trailing integer; a malformed range string, or one with end < start,
\* ends the selector before the catalog is loaded and before any filter.
C31_RangeFilter ==
    /\ [][(selPc = "glob_filtered" /\ selPc' = "range_filtered" /\ task_id_range # {}) =>
            env_args_list' =
                SelectSeq(env_args_list,
                    LAMBDA ea : EndsInRange(ea.task_name, Val(task_id_range)[1],
                                            Val(task_id_range)[2]))]_vars
    /\ []((selPc # "idle" /\ BadRange(args)) =>
            /\ selPc \in {"parsed", "ids_loaded", "exit"}
            /\ selPc = "exit" => selError \in {"task_id_range", "only_one_of_task_ids",
                                               "task_ids_json"}
            /\ env_args_list = <<>> /\ loads = 0 /\ launches = 0)
    /\ []((selPc = "exit" /\ selError = "task_id_range") => BadRange(args) /\ loads = 0)

C31_Witness ==
    /\ selPc = "range_filtered"
    /\ task_id_range = {<<1, 2>>}
    /\ args.task_name_glob = {} /\ task_ids = <<>>
    /\ Len(env_args_list) = 2
    /\ env_args_list[1].task_name = <<"w", ".", "2">>
    /\ env_args_list[2].task_name = <<"w", ".", "1", "_", "1">>

\* The pass is running or has returned.
InPass == pc \in {"detected", "scanned", "pruned", "copying", "reconciled"}

\* C32: a reconciliation pass run again over the same run directory after a
\* pass that completed, with overwrite unset, writes nothing: the failed-ID
\* store is not written, no folder is copied, every success is skipped, the
\* destination root is as the pass found it, and the pass does not raise.
C32_RerunIsNoOp ==
    (prevCompleted /\ ~overwrite) =>
        /\ pc # "fatal"
        /\ InPass =>
              /\ storeWrites = 0
              /\ failedJson = storeAtPass
              /\ copied = 0
              /\ destRoot = destAtPass
        /\ pc = "reconciled" => skipped = Len(successes)

C32_Witness ==
    /\ prevCompleted /\ ~overwrite
    /\ pc = "reconciled"
    /\ Len(successes) = 2
    /\ skipped = 2
    /\ failedJson.ids # storeAtStart.ids
    /\ destRoot # destAtStart

\* C33: when a pass was killed or raised and reconciliation is then run again
\* to completion over the same run directory with overwrite unset, every
\* successful run folder is completely present under the destination root and
\* the failed-ID store is the original store without the success IDs.
C33_ReentrantAfterCrash ==
    (prevAborted /\ ~overwrite /\ pc = "reconciled") =>
        /\ \A i \in 1..Len(successes) :
              \E f \in destRoot.folders : f.name = successes[i].run_dir /\ f.complete
        /\ failedJson.ids =
              Prune(storeAtStart.ids, {successes[i].task_id : i \in 1..Len(successes)})

\* C34: the failed-ID store only shrinks. Every step of every pipeline run and
\* reconciliation pass leaves the store an order-preserving subsequence of what
\* it was, of the same shape; no step adds an ID; and an ID leaves the store
\* only in a pass whose scan found a folder of that ID recording
\* cum_reward == 1.
C34_StoreOnlyShrinks ==
    /\ [][/\ failedJson'.shape = failedJson.shape
          /\ \E keep \in SUBSET (1..Len(failedJson.ids)) :
                IsSublistAt(failedJson'.ids, failedJson.ids, keep)
          /\ Range(failedJson'.ids) \subseteq Range(failedJson.ids)
          /\ (Range(failedJson.ids) \ Range(failedJson'.ids)) # {} =>
                /\ pc = "scanned"
                /\ (Range(failedJson.ids) \ Range(failedJson'.ids)) \subseteq rewarded]_vars
    /\ [](Range(failedJson.ids) \subseteq Range(storeAtStart.ids))

C34_Witness ==
    /\ run = 2
    /\ pc = "pruned"
    /\ storeWrites = 1
    /\ Len(storeAtPass.ids) = 1
    /\ failedJson.ids = <<>>
    /\ rewarded = {storeAtPass.ids[1]}

====
